---------------------------- MODULE Spec2Model ----------------------------
(***************************************************************************)
(* lila-deepq: the fishnet job broker (acquire / abort / analysis), the    *)
(* document store it works on, the in-process event bus and the irwin      *)
(* aggregator that ships a report once all of its jobs are complete.       *)
(*                                                                         *)
(* Every store call, bus receive and handler return is one step: the       *)
(* handlers are async functions whose awaits are the suspension points, so *)
(* the steps of different requests interleave between store calls.         *)
(***************************************************************************)
EXTENDS Integers, Sequences, FiniteSets, TLC

(***************************************************************************)
(* Bounds of the model.                                                    *)
(***************************************************************************)
MaxJobs == 2        \* job documents in the store

JobIds == 1..MaxJobs
Times == 1..MaxJobs     \* date_last_updated values: enough for every order of the jobs

\* Option<T> and Bson::Null: None is the empty set, Some(x) the singleton.
None == {}
Some(x) == {x}
Unwrap(o) == CHOOSE x \in o : TRUE

\* Result<T, E>.
Ok(v) == [ok |-> TRUE, val |-> v]
Err(e) == [ok |-> FALSE, err |-> e]

(***************************************************************************)
(* fishnet::model::Key and its Bson conversion.  A key is the string of    *)
(* alphanumeric characters of the credential; doc!{} turns a Key into      *)
(* Bson through From<Key>, which lower-cases it.                           *)
(***************************************************************************)
UpperChars == <<"A","B","C","D","E","F","G","H","I","J","K","L","M",
                "N","O","P","Q","R","S","T","U","V","W","X","Y","Z">>
LowerChars == <<"a","b","c","d","e","f","g","h","i","j","k","l","m",
                "n","o","p","q","r","s","t","u","v","w","x","y","z">>

char_to_lowercase(c) ==
    IF \E i \in DOMAIN UpperChars : UpperChars[i] = c
    THEN LowerChars[CHOOSE i \in DOMAIN UpperChars : UpperChars[i] = c]
    ELSE c

to_lowercase(s) == [i \in DOMAIN s |-> char_to_lowercase(s[i])]

KeyToBson(k) == to_lowercase(k)

(***************************************************************************)
(* fishnet::model::AnalysisType: the variant names, their serde form       *)
(* (rename_all = "lowercase", used when a Job is stored) and their Bson    *)
(* form (to_string().to_lowercase(), used in query filters).               *)
(***************************************************************************)
AnalysisType == {"UserAnalysis", "SystemAnalysis", "Deep"}

AnalysisTypeSerde(at) ==
    CASE at = "UserAnalysis"   -> "useranalysis"
      [] at = "SystemAnalysis" -> "systemanalysis"
      [] at = "Deep"           -> "deep"

AnalysisTypeToBson(at) ==
    CASE at = "UserAnalysis"   -> "useranalysis"
      [] at = "SystemAnalysis" -> "systemanalysis"
      [] at = "Deep"           -> "deep"

(***************************************************************************)
(* The deepq_apiuser collection.  ApiUsers are minted by the               *)
(* fishnet-new-user command (a 7 character alphanumeric key) and are never  *)
(* changed by the broker.  Two of the keys differ only in letter case.     *)
(***************************************************************************)
ApiUserIds == {"u1", "u2", "u3"}

ApiUserColl ==
    [u \in ApiUserIds |->
        CASE u = "u1" -> [_id |-> "u1", key |-> <<"a","b","c","d","e","f","g">>,
                          perms |-> {"Deep"}]
          [] u = "u2" -> [_id |-> "u2", key |-> <<"A","b","c","d","e","f","g">>,
                          perms |-> {"Deep", "UserAnalysis"}]
          [] u = "u3" -> [_id |-> "u3", key |-> <<"h","i","J","k","l","m","n">>,
                          perms |-> {"UserAnalysis", "SystemAnalysis"}]]

\* A lookup that takes the key in any letter case.
get_api_user_any_case(key) ==
    {u \in ApiUserIds : to_lowercase(ApiUserColl[u].key) = to_lowercase(key)}

\* get_api_user: find_one({"key": key.0}), the key string compared as it is.
get_api_user(key) == {u \in ApiUserIds : ApiUserColl[u].key = key}

\* http::recover: the status of the reply for a rejection.
recover(err) ==
    CASE err = "NotFound" -> 404
      [] err = "Unauthenticated" -> 401
      [] err = "Forbidden" -> 403
      [] err = "MethodNotAllowed" -> 405
      [] OTHER -> 500

\* The filter header_authorization_required of handlers::mount on a bearer
\* key: api_user_from_header, then required_or_unauthenticated, then
\* authorize, which looks the ApiUser up again by its key.
header_authorization_required(key) ==
    LET api_user == get_api_user(key) IN
    IF api_user = None THEN Err("Unauthenticated")
    ELSE IF get_api_user(ApiUserColl[Unwrap(api_user)].key) = None THEN Err("Forbidden")
    ELSE Ok(Unwrap(api_user))

\* Bearer keys of no ApiUser: one that differs from a stored key in letter
\* case only, and one that is unlike any.
StrangerKeys == {<<"A","B","c","d","e","f","g">>, <<"z","z","z","z","z","z","z">>}

(***************************************************************************)
(* deepq::api::precedence_for_origin.                                      *)
(***************************************************************************)
PrecModerator == 1000000
PrecLeaderboard == 1000
PrecTournament == 100
PrecRandom == 10

ReportOrigin == {"Moderator", "Random", "Leaderboard", "Tournament"}

\* Mutant of the mapping: every origin has the precedence of a random one.
precedence_flat(origin) == PrecRandom

precedence_for_origin(origin) ==
    CASE origin = "Moderator"   -> PrecModerator
      [] origin = "Leaderboard" -> PrecLeaderboard
      [] origin = "Tournament"  -> PrecTournament
      [] origin = "Random"      -> PrecRandom


(***************************************************************************)
(* State.  A collection is the set of its documents.                       *)
(***************************************************************************)
VARIABLES
    jobs,        \* deepq_fishnetjobs: the Job documents
    games,       \* deepq_games: the Game documents
    reports,     \* deepq_reports: the Report documents
    analysis,    \* deepq_analysis: the GameAnalysis documents, in insertion order
    storeFaults, \* whether store calls may fail in this run (never changes)
    inputs,      \* the analysis arrays workers submit in this run (never changes)
    clients,     \* the workers that send requests in this run (never changes)
    pc,          \* per worker: where its current request stands
    cur,         \* per worker: the Job document its handler holds
    body,        \* per worker: the analysis array of its AnalysisReport
    out,         \* status, reply and published messages of the request that ended last
    bus,         \* the broadcast channel, as seen by the aggregator's receiver
    agg,         \* the aggregator task (fishnet_listener)
    ing,         \* the stream ingester task (deepq_irwin_job_listener)
    nCreated,    \* history: number of Job documents created
    nAcquired,   \* history, where followed: number of acquire requests answered 200
    handed,      \* history, where followed: <<worker, job>> pairs answered 200 by acquire
    casWins,     \* history: per report, compare-and-swaps of sent_to_irwin that won
    payloads     \* history: per report, IrwinJob payloads built

storeVars == <<jobs, games, reports, analysis>>
runVars == <<storeFaults, inputs, clients>>
workerVars == <<pc, cur, body>>
aggVars == <<bus, agg>>
histVars == <<nCreated, casWins, payloads>>
acquiredVars == <<nAcquired, handed>>
vars == <<jobs, games, reports, analysis, storeFaults, inputs, clients, pc, cur, body, out,
          bus, agg, ing, nCreated, nAcquired, handed, casWins, payloads>>

GameIds == JobIds
MaxReports == 1
ReportIds == 1..MaxReports

Workers == ApiUserIds

(***************************************************************************)
(* fishnet::model::Job as created from a CreateJob: no owner, not          *)
(* complete, date_last_updated = now.                                      *)
(***************************************************************************)
JobFromCreateJob(id, create, now) ==
    [_id |-> id,
     game_id |-> create.game_id,
     report_id |-> create.report_id,
     analysis_type |-> AnalysisTypeSerde(create.analysis_type),
     precedence |-> create.precedence,
     owner |-> None,
     date_last_updated |-> now,
     is_complete |-> FALSE]

CreateJob(game_id, report_id, analysis_type, precedence) ==
    [game_id |-> game_id, report_id |-> report_id,
     analysis_type |-> analysis_type, precedence |-> precedence]

\* find_one({"_id": id}) on a collection.
ById(coll, id) == {d \in coll : d._id = id}

\* The collection with document d replaced by e.
Replace(coll, d, e) == (coll \ {d}) \cup {e}

(***************************************************************************)
(* The event bus: tokio::sync::broadcast.  send fails when no receiver is  *)
(* subscribed (the handler logs the error and goes on).  A receiver that    *)
(* falls more than the capacity behind loses the oldest messages and is     *)
(* told so by its next recv.                                               *)
(***************************************************************************)
BusCapacity == 2

JobAcquired(id) == [type |-> "JobAcquired", id |-> id]
JobAborted(id) == [type |-> "JobAborted", id |-> id]
JobCompleted(id) == [type |-> "JobCompleted", id |-> id]

\* A channel that keeps a message sent while no receiver is subscribed.
BroadcastKeep(b, msg) ==
    IF Len(b.queue) < BusCapacity
    THEN [b EXCEPT !.queue = Append(@, msg)]
    ELSE [b EXCEPT !.queue = Append(Tail(@), msg), !.lagged = TRUE, !.dropped = TRUE]

\* lagged is the Lagged error the receiver's next recv returns; dropped
\* records that some message never reached the receiver.
BroadcastSend(b, msg) ==
    IF ~b.subscribed THEN [b EXCEPT !.dropped = TRUE]
    ELSE IF Len(b.queue) < BusCapacity
         THEN [b EXCEPT !.queue = Append(@, msg)]
         ELSE [b EXCEPT !.queue = Append(Tail(@), msg),
                        !.lagged = TRUE, !.dropped = TRUE]

\* handlers::send: the result of tx.send is only logged.
send(msg) == bus' = BroadcastSend(bus, msg)

(***************************************************************************)
(* The reply of a request and what it published, kept until the next       *)
(* request ends.  status is the HTTP status recover / the reply filters    *)
(* give; job is the id of the Job view in the body of a 200 and view that  *)
(* body, where the request has one.                                        *)
(***************************************************************************)
Reply(status, job, msgs) == [status |-> status, job |-> job, msgs |-> msgs, view |-> None]


(***************************************************************************)
(* fishnet::api: the broker's store operations on deepq_fishnetjobs.       *)
(***************************************************************************)

\* Mutants of the filter: one that forgets the owner, one that forgets the kind.
AssignFilterAnyOwner(d, api_user) ==
    d.analysis_type \in {AnalysisTypeToBson(p) : p \in api_user.perms}

AssignFilterAnyKind(d, api_user) == d.owner = None

\* assign_job, the filter: {"owner": Null, "analysis_type": {"$in": perms}}.
AssignFilter(d, api_user) ==
    /\ d.owner = None
    /\ d.analysis_type \in {AnalysisTypeToBson(p) : p \in api_user.perms}

\* Mutants of the sort: precedence ascending, and date descending.
AssignSortPrecedenceAsc(d, e) ==
    \/ d.precedence < e.precedence
    \/ /\ d.precedence = e.precedence
       /\ d.date_last_updated <= e.date_last_updated

AssignSortDateDesc(d, e) ==
    \/ d.precedence > e.precedence
    \/ /\ d.precedence = e.precedence
       /\ d.date_last_updated >= e.date_last_updated

\* assign_job, the sort {"precedence": -1, "date_last_updated": 1}: d is not
\* after e.
AssignSortBefore(d, e) ==
    \/ d.precedence > e.precedence
    \/ /\ d.precedence = e.precedence
       /\ d.date_last_updated <= e.date_last_updated

\* assign_job, the update {"$set": {"owner": api_user.key}}.
AssignUpdate(d, api_user) == [d EXCEPT !.owner = Some(KeyToBson(api_user.key))]

\* The documents find_one_and_update may pick: the matches that are first in
\* the sort order (which of several equal ones is the store's choice).
AssignCandidates(api_user) ==
    LET match == {d \in jobs : AssignFilter(d, api_user)}
    IN  {d \in match : \A e \in match : AssignSortBefore(d, e)}

\* unassign_job, the filter: {"_id": id, "owner": api_user.key}.
UnassignFilter(d, api_user, id) ==
    /\ d._id = id
    /\ d.owner = Some(KeyToBson(api_user.key))

\* Mutant of unassign_job: no document is updated.
unassign_none(api_user, id) == jobs

\* unassign_job: update_one with the update document {"owner": Null}, applied
\* as the assignment of the field it names to the one matching document.
unassign_job(api_user, id) ==
    {IF UnassignFilter(d, api_user, id) THEN [d EXCEPT !.owner = None] ELSE d : d \in jobs}

\* Mutant of delete_job: nothing is deleted.
delete_none(id) == jobs

\* delete_job: delete_one({"_id": id}).
delete_job(id) == {d \in jobs : d._id # id}

\* get_user_job: find_one({"_id": id, "owner": user.key}).
get_user_job(id, user) ==
    {d \in jobs : d._id = id /\ d.owner = Some(KeyToBson(user.key))}

\* set_complete: marks the job complete.
set_complete(id) ==
    {IF d._id = id THEN [d EXCEPT !.is_complete = TRUE] ELSE d : d \in jobs}

\* deepq::api::find_game: find_one({"_id": game_id}) on deepq_games.
find_game(game_id) == ById(games, game_id)

(***************************************************************************)
(* The analysis a worker reports: one slot per ply, a slot being null      *)
(* (None) or a PlyAnalysis.                                                *)
(***************************************************************************)

\* Mutant of is_complete: every report counts as complete.
is_complete_always(a) == TRUE

\* AnalysisReport::is_complete: no slot is None.
is_complete(a) == Cardinality({i \in DOMAIN a : a[i] = None}) = 0

\* GameAnalysis from UpdateGameAnalysis: a fresh _id for every call.
GameAnalysisFrom(id, job, api_user, a) ==
    [_id |-> id, job_id |-> job._id, game_id |-> job.game_id,
     source_id |-> api_user._id, analysis |-> a]

\* upsert_one_game_analysis: update_one({"_id": analysis._id}, analysis, upsert).
\* No stored document has the fresh _id, so the upsert inserts.
upsert_one_game_analysis(job, api_user, a) ==
    LET id == Len(analysis) + 1
        new == GameAnalysisFrom(id, job, api_user, a)
    IN  IF \E i \in DOMAIN analysis : analysis[i]._id = id
        THEN [i \in DOMAIN analysis |-> IF analysis[i]._id = id THEN new ELSE analysis[i]]
        ELSE Append(analysis, new)

MaxAnalyses == 2    \* GameAnalysis documents in the store


(***************************************************************************)
(* fishnet::handlers.  A worker is a client holding the key of one ApiUser *)
(* (the Authorized<ApiUser> the header filters hand to the handler); it    *)
(* has one request in flight at a time.                                    *)
(***************************************************************************)
\* The handlers run behind header_authorization_required.
Idle(u) ==
    /\ u \in clients
    /\ pc[u] = "idle"
    /\ header_authorization_required(ApiUserColl[u].key) = Ok(u)

Done(u, reply) ==
    /\ pc' = [pc EXCEPT ![u] = "idle"]
    /\ cur' = [cur EXCEPT ![u] = None]
    /\ body' = [body EXCEPT ![u] = <<>>]
    /\ out' = reply

\* A store call that fails: the error is propagated by `?`, the rejection is
\* not one recover knows, the reply is 500.
StoreError(u) ==
    /\ storeFaults
    /\ Done(u, Reply(500, None, <<>>))

\* acquire_job, up to the await of assign_job.
AssignJob(u) ==
    /\ Idle(u)
    /\ LET api_user == ApiUserColl[u] IN
       \/ \E d \in AssignCandidates(api_user) :
            /\ jobs' = Replace(jobs, d, AssignUpdate(d, api_user))
            /\ pc' = [pc EXCEPT ![u] = "find_game"]
            /\ cur' = [cur EXCEPT ![u] = Some(d)]
            /\ UNCHANGED <<body, out>>
       \/ /\ AssignCandidates(api_user) = {}
          /\ Done(u, Reply(204, None, <<>>))
          /\ UNCHANGED jobs
       \/ /\ StoreError(u)
          /\ UNCHANGED jobs
    /\ UNCHANGED <<games, reports, analysis, runVars, ing, aggVars, histVars>>

(***************************************************************************)
(* The Job view acquire_job answers with.  The handler holds the Job as    *)
(* from_document gives it, its analysis_type the variant the stored string *)
(* names.  The view is serialised with skip_serializing_none: an Option    *)
(* that is None is absent from the body.                                   *)
(***************************************************************************)
AnalysisTypeDe(stored) == CHOOSE at \in AnalysisType : AnalysisTypeSerde(at) = stored

\* Mutant of nodes_for_job: the nodes of a Deep job for every kind.
nodes_for_deep(job) == [nnue |-> 2500000, classical |-> 4500000]

nodes_for_job(job) ==
    CASE AnalysisTypeDe(job.analysis_type) = "UserAnalysis" ->
            [nnue |-> 2250000, classical |-> 4050000]
      [] AnalysisTypeDe(job.analysis_type) = "SystemAnalysis" ->
            [nnue |-> 2250000, classical |-> 4050000]
      [] AnalysisTypeDe(job.analysis_type) = "Deep" ->
            [nnue |-> 2500000, classical |-> 4500000]

multipv_for_job(job) ==
    IF AnalysisTypeDe(job.analysis_type) = "Deep" THEN Some(5) ELSE None

depth_for_job(job) == None

skip_positions_for_job(job) ==
    CASE AnalysisTypeDe(job.analysis_type) = "UserAnalysis"   -> <<0, 1, 2, 3, 4, 5, 6, 7, 8, 9>>
      [] AnalysisTypeDe(job.analysis_type) = "SystemAnalysis" -> <<0, 1, 2, 3, 4, 5, 6, 7, 8, 9>>
      [] AnalysisTypeDe(job.analysis_type) = "Deep"           -> <<>>

\* deepq::api::starting_position: the standard position, whatever the game.
starting_position(game) == "rnbqkbnr/pppppppp/8/8/8/8/PPPPPPPP/RNBQKBNR w KQkq - 0 1"

JobView(job, game) ==
    [game_id |-> job.game_id,
     position |-> starting_position(game),
     variant |-> "standard",
     skip_positions |-> skip_positions_for_job(job),
     moves |-> game.pgn,
     work |-> [id |-> job._id,
               type |-> "analysis",
               nodes |-> nodes_for_job(job),
               multipv |-> multipv_for_job(job),
               depth |-> depth_for_job(job)]]

\* acquire_job, the await of find_game: a game found ends the request with the
\* Job view and JobAcquired published.
FindGame(u) ==
    /\ pc[u] = "find_game"
    /\ LET job == Unwrap(cur[u]) IN
       \/ /\ find_game(job.game_id) # {}
          /\ send(JobAcquired(job._id))
          /\ \E game \in find_game(job.game_id) :
                Done(u, [Reply(200, Some(job._id), <<JobAcquired(job._id)>>)
                            EXCEPT !.view = Some(JobView(job, game))])
          /\ UNCHANGED agg
       \/ /\ find_game(job.game_id) = {}
          /\ pc' = [pc EXCEPT ![u] = "delete_job"]
          /\ UNCHANGED <<cur, body, out, aggVars>>
       \/ /\ storeFaults
          /\ pc' = [pc EXCEPT ![u] = "unassign_job"]
          /\ UNCHANGED <<cur, body, out, aggVars>>
    /\ UNCHANGED <<storeVars, runVars, ing, nCreated, casWins, payloads>>

\* acquire_job, find_game failed: unassign_job, then the error is returned.
UnassignOnError(u) ==
    /\ pc[u] = "unassign_job"
    /\ \/ jobs' = unassign_job(ApiUserColl[u], Unwrap(cur[u])._id)
       \/ storeFaults /\ UNCHANGED jobs
    /\ Done(u, Reply(500, None, <<>>))
    /\ UNCHANGED <<games, reports, analysis, runVars, ing, aggVars, histVars>>

\* acquire_job, no game for the job: delete_job, then no content.
DeleteJob(u) ==
    /\ pc[u] = "delete_job"
    /\ \/ /\ jobs' = delete_job(Unwrap(cur[u])._id)
          /\ Done(u, Reply(204, None, <<>>))
       \/ /\ StoreError(u)
          /\ UNCHANGED jobs
    /\ UNCHANGED <<games, reports, analysis, runVars, ing, aggVars, histVars>>

\* abort_job: unassign_job, then JobAborted is published and no content returned.
Unassigned(u, job_id) ==
    /\ jobs' = unassign_job(ApiUserColl[u], job_id)
    /\ send(JobAborted(job_id))
    /\ Done(u, Reply(204, None, <<JobAborted(job_id)>>))
    /\ UNCHANGED agg

AbortJob(u, job_id) ==
    /\ Idle(u)
    /\ \/ Unassigned(u, job_id)
       \/ /\ StoreError(u)
          /\ UNCHANGED <<jobs, aggVars>>
    /\ UNCHANGED <<games, reports, analysis, runVars, ing, histVars>>

\* Requests in flight that will still insert a GameAnalysis.
Upserting == {u \in Workers : pc[u] = "upsert"}

\* save_job_analysis, up to the await of get_user_job: no job of this user with
\* this id is 404.
GetUserJob(u, job_id, a) ==
    /\ Idle(u)
    /\ Len(analysis) + Cardinality(Upserting) < MaxAnalyses
    /\ \/ \E d \in get_user_job(job_id, ApiUserColl[u]) :
            /\ pc' = [pc EXCEPT ![u] = "upsert"]
            /\ cur' = [cur EXCEPT ![u] = Some(d)]
            /\ body' = [body EXCEPT ![u] = a]
            /\ UNCHANGED out
       \/ /\ get_user_job(job_id, ApiUserColl[u]) = {}
          /\ Done(u, Reply(404, None, <<>>))
       \/ StoreError(u)
    /\ UNCHANGED <<storeVars, runVars, ing, aggVars, histVars>>

\* save_job_analysis, the await of upsert_one_game_analysis; a report that is
\* not complete ends the request here.
UpsertAnalysis(u) ==
    /\ pc[u] = "upsert"
    /\ \/ /\ analysis' = upsert_one_game_analysis(Unwrap(cur[u]), ApiUserColl[u], body[u])
          /\ IF is_complete(body[u])
             THEN /\ pc' = [pc EXCEPT ![u] = "set_complete"]
                  /\ UNCHANGED <<cur, body, out>>
             ELSE Done(u, Reply(204, None, <<>>))
       \/ /\ StoreError(u)
          /\ UNCHANGED analysis
    /\ UNCHANGED <<jobs, games, reports, runVars, ing, aggVars, histVars>>

\* A sink that publishes JobCompleted without having marked the job.
PublishUnmarked(u) ==
    /\ pc[u] = "set_complete"
    /\ LET job == Unwrap(cur[u]) IN
       /\ send(JobCompleted(job._id))
       /\ Done(u, Reply(204, None, <<JobCompleted(job._id)>>))
    /\ UNCHANGED <<storeVars, runVars, ing, agg, histVars>>

\* save_job_analysis, a complete report: set_complete, then JobCompleted is
\* published.
SetComplete(u) ==
    /\ pc[u] = "set_complete"
    /\ LET job == Unwrap(cur[u]) IN
       \/ /\ jobs' = set_complete(job._id)
          /\ send(JobCompleted(job._id))
          /\ Done(u, Reply(204, None, <<JobCompleted(job._id)>>))
          /\ UNCHANGED agg
       \/ /\ StoreError(u)
          /\ UNCHANGED <<jobs, aggVars>>
    /\ UNCHANGED <<games, reports, analysis, runVars, ing, histVars>>

\* A request to acquire, abort or analysis with the bearer key of no ApiUser:
\* the filter rejects it and recover answers; the handler is not run.
Unauthenticated ==
    /\ \E key \in StrangerKeys :
          LET authorized == header_authorization_required(key) IN
          \/ ~authorized.ok /\ out' = Reply(recover(authorized.err), None, <<>>)
          \/ storeFaults /\ out' = Reply(500, None, <<>>)
    /\ UNCHANGED <<storeVars, runVars, ing, workerVars, aggVars, histVars>>

(***************************************************************************)
(* GET /status: fishnet_status asks q_status for each kind in turn, and    *)
(* q_status awaits three queries on deepq_fishnetjobs.                     *)
(***************************************************************************)
\* A comparison with the name of the variant as it is written.
OfKindAsNamed(d, analysis_type) == d.analysis_type = analysis_type

\* {"analysis_type": {"$eq": analysis_type}}: the kind as From<AnalysisType>
\* for Bson gives it.
OfKind(d, analysis_type) == d.analysis_type = AnalysisTypeToBson(analysis_type)

\* Job::acquired_jobs: count_documents({owner: {$ne: null}, analysis_type}).
acquired_jobs(analysis_type) ==
    Cardinality({d \in jobs : d.owner # None /\ OfKind(d, analysis_type)})

\* Job::queued_jobs: count_documents({owner: {$eq: null}, analysis_type}).
queued_jobs(analysis_type) ==
    Cardinality({d \in jobs : d.owner = None /\ OfKind(d, analysis_type)})

\* A find_one sorted by date_last_updated ascending: a queued job of the kind
\* that no other precedes.
oldest_job_ascending(analysis_type) ==
    LET queued == {d \in jobs : d.owner = None /\ OfKind(d, analysis_type)} IN
    {d \in queued : \A e \in queued : d.date_last_updated <= e.date_last_updated}

\* Job::oldest_job: find_one of the same filter sorted by
\* {date_last_updated: -1}; any of the documents the sort puts first.
oldest_job(analysis_type) ==
    LET queued == {d \in jobs : d.owner = None /\ OfKind(d, analysis_type)} IN
    {d \in queued : \A e \in queued : d.date_last_updated >= e.date_last_updated}

\* Utc::now() of a status request: after every date stored.  Dates count
\* seconds; timestamp_millis gives milliseconds.
Now == MaxJobs + 1

timestamp_millis(date) == date * 1000

\* Job::seconds_since_created.
seconds_since_created(job) ==
    (timestamp_millis(Now) - timestamp_millis(job.date_last_updated)) \div 1000

\* The kinds in the order fishnet_status asks for them.
StatusKinds == <<"UserAnalysis", "SystemAnalysis", "Deep">>

\* The kind the q_status in progress is about.
StatusKind(u) == StatusKinds[Len(Unwrap(cur[u]).analysis) + 1]

\* fishnet_status and q_status, the await of acquired_jobs.
AcquiredJobs(u) ==
    /\ \/ u \in clients /\ pc[u] = "idle"
       \/ pc[u] = "status_acquired"
    /\ LET status == IF pc[u] = "idle" THEN [analysis |-> <<>>, acquired |-> 0, queued |-> 0]
                                       ELSE Unwrap(cur[u])
           analysis_type == StatusKinds[Len(status.analysis) + 1]
       IN  \/ /\ cur' = [cur EXCEPT ![u] =
                           Some([status EXCEPT !.acquired = acquired_jobs(analysis_type)])]
              /\ pc' = [pc EXCEPT ![u] = "status_queued"]
              /\ UNCHANGED <<body, out>>
           \/ StoreError(u)
    /\ UNCHANGED <<storeVars, runVars, ing, aggVars, histVars>>

\* q_status, the await of queued_jobs.
QueuedJobs(u) ==
    /\ pc[u] = "status_queued"
    /\ \/ /\ cur' = [cur EXCEPT ![u] =
                       Some([Unwrap(cur[u]) EXCEPT !.queued = queued_jobs(StatusKind(u))])]
          /\ pc' = [pc EXCEPT ![u] = "status_oldest"]
          /\ UNCHANGED <<body, out>>
       \/ StoreError(u)
    /\ UNCHANGED <<storeVars, runVars, ing, aggVars, histVars>>

\* q_status, the await of oldest_job, and the QStatus of the kind; after the
\* last kind the reply is made.
OldestJob(u) ==
    /\ pc[u] = "status_oldest"
    /\ \/ \E oldest \in IF oldest_job(StatusKind(u)) = None THEN {0}
                        ELSE {seconds_since_created(job) : job \in oldest_job(StatusKind(u))} :
            LET status == Unwrap(cur[u])
                q == [acquired |-> status.acquired, queued |-> status.queued,
                      oldest |-> oldest]
            IN  /\ cur' = [cur EXCEPT ![u] =
                             Some([status EXCEPT !.analysis = Append(@, q)])]
                /\ pc' = [pc EXCEPT ![u] = IF Len(status.analysis) + 1 = Len(StatusKinds)
                                           THEN "status_reply" ELSE "status_acquired"]
                /\ UNCHANGED <<body, out>>
       \/ StoreError(u)
    /\ UNCHANGED <<storeVars, runVars, ing, aggVars, histVars>>

\* The reply of GET /status: 200 with the FishnetStatus.
StatusReply(u) ==
    /\ pc[u] = "status_reply"
    /\ Done(u, Reply(200, None, <<>>))
    /\ UNCHANGED <<storeVars, runVars, ing, aggVars, histVars>>

Status(u) == AcquiredJobs(u) \/ QueuedJobs(u) \/ OldestJob(u) \/ StatusReply(u)

\* GET /key/{key}, not behind the authorization filter: the path parameter is
\* what the handler holds until get_api_user returns.
KeyRequest(u) ==
    /\ u \in clients
    /\ pc[u] = "idle"
    /\ \E key \in StrangerKeys \cup {ApiUserColl[v].key : v \in ApiUserIds} :
          cur' = [cur EXCEPT ![u] = Some(key)]
    /\ pc' = [pc EXCEPT ![u] = "check_key"]
    /\ UNCHANGED <<storeVars, runVars, ing, body, out, aggVars, histVars>>

\* check_key_validity: an ApiUser is an empty 200, none is not_found.
CheckKeyValidity(u) ==
    /\ pc[u] = "check_key"
    /\ \/ IF get_api_user(Unwrap(cur[u])) # None
          THEN Done(u, Reply(200, None, <<>>))
          ELSE Done(u, Reply(recover("NotFound"), None, <<>>))
       \/ StoreError(u)
    /\ UNCHANGED <<storeVars, runVars, ing, aggVars, histVars>>

CheckKey(u) == KeyRequest(u) \/ CheckKeyValidity(u)

Acquire(u) == AssignJob(u) \/ FindGame(u) \/ UnassignOnError(u) \/ DeleteJob(u)

Abort(u) == \E job_id \in JobIds : AbortJob(u, job_id)

SaveAnalysis(u) ==
    \/ \E job_id \in JobIds, a \in inputs : GetUserJob(u, job_id, a)
    \/ UpsertAnalysis(u)
    \/ SetComplete(u)


(***************************************************************************)
(* deepq::model: scores and the analysis of one ply.                       *)
(***************************************************************************)
ScoreCp(n) == [kind |-> "cp", n |-> n]
ScoreMate(n) == [kind |-> "mate", n |-> n]

Best(score) == [t |-> "Best", score |-> score]
Matrix(rows) == [t |-> "Matrix", score |-> rows]
Skipped == [t |-> "Skipped"]
Empty(score) == [t |-> "Empty", score |-> score]

(***************************************************************************)
(* irwin::api: the payload for irwin.                                      *)
(***************************************************************************)
\* From<Score> for EngineEval.
EngineEvalFrom(s) ==
    IF s.kind = "cp" THEN [cp |-> Some(s.n), mate |-> None]
                     ELSE [cp |-> None, mate |-> Some(s.n)]

\* EngineEval::flip.
flip(e) == [cp |-> {0 - x : x \in e.cp}, mate |-> {0 - x : x \in e.mate}]

\* iter().flatten() of a row of the matrix: its scores that are not null.
Flatten(row) ==
    LET some == SelectSeq(row, LAMBDA o : o # None)
    IN  [i \in DOMAIN some |-> Unwrap(some[i])]

\* Analysis::from_ply_analysis: Best gives its score as it is; Matrix gives the
\* last score of its first row that has one, negated when flip; anything else
\* is IncompleteIrwinAnalysis.
from_ply_analysis(uci, ply_analysis, flipped) ==
    CASE ply_analysis.t = "Best" ->
           Ok([uci |-> uci, engine_eval |-> EngineEvalFrom(ply_analysis.score)])
      [] ply_analysis.t = "Matrix" ->
           LET rows == ply_analysis.score
               scored == {i \in DOMAIN rows : Len(Flatten(rows[i])) > 0}
           IN  IF scored = {} THEN Err("IncompleteIrwinAnalysis")
               ELSE LET first == CHOOSE i \in scored : \A k \in scored : i <= k
                        pvs == Flatten(rows[first])
                        engine_eval == EngineEvalFrom(pvs[Len(pvs)])
                    IN  Ok([uci |-> uci,
                            engine_eval |-> IF flipped THEN flip(engine_eval)
                                                       ELSE engine_eval])
      [] OTHER -> Err("IncompleteIrwinAnalysis")

\* Job::find_by_report.
find_by_report(report_id) == {d \in jobs : d.report_id = Some(report_id)}

\* GameAnalysis::find_by_jobs.
find_by_jobs(job_ids) == SelectSeq(analysis, LAMBDA ga : ga.job_id \in job_ids)

Min(a, b) == IF a <= b THEN a ELSE b

\* irwin_job_from_report, the loop over the plies of one analysed game: the
\* moves zipped with the slots, a null slot being IncompleteIrwinAnalysis.
PlyEvals(game, game_analysis) ==
    [i \in 1..Min(Len(game.pgn), Len(game_analysis.analysis)) |->
        IF game_analysis.analysis[i] = None
        THEN Err("IncompleteIrwinAnalysis")
        ELSE from_ply_analysis(game.pgn[i], Unwrap(game_analysis.analysis[i]),
                               (i - 1) % 2 = 1)]

\* irwin_job_from_report: every GameAnalysis of the report's jobs, a game that
\* is not stored skipped; the first error ends it.  Its reads are taken to see
\* one state of the store.
irwin_job_from_report(report) ==
    LET job_ids == {d._id : d \in find_by_report(report._id)}
        analyzed_games == SelectSeq(find_by_jobs(job_ids),
                                    LAMBDA ga : find_game(ga.game_id) # {})
        evals == [k \in DOMAIN analyzed_games |->
                    PlyEvals(Unwrap(find_game(analyzed_games[k].game_id)),
                             analyzed_games[k])]
    IN  IF \E k \in DOMAIN evals : \E i \in DOMAIN evals[k] : ~evals[k][i].ok
        THEN Err("IncompleteIrwinAnalysis")
        ELSE Ok([player_id |-> report.user_id,
                 games |-> [k \in DOMAIN evals |->
                              [id |-> analyzed_games[k].game_id,
                               analysis |-> [i \in DOMAIN evals[k] |->
                                               evals[k][i].val.engine_eval],
                               analysed |-> TRUE]]])

\* report_complete_percentage: complete / (complete + incomplete) in f64, kept
\* as the pair; 0/0 is NaN.
report_complete_percentage(report) ==
    LET found == find_by_report(report._id)
        complete == Cardinality({d \in found : d.is_complete})
        incomplete == Cardinality({d \in found : ~d.is_complete})
    IN  [num |-> complete, den |-> complete + incomplete]

\* Mutant of the test below: any ratio passes.
AtLeastZero(percentage) == TRUE

\* Mutant of the test below: a ratio of no jobs passes.
NotBelowOne(percentage) == percentage.num >= percentage.den

\* percentage >= 1f64, which NaN fails.
AtLeastOne(percentage) ==
    percentage.den # 0 /\ percentage.num >= percentage.den

\* Mutant of the test below: every caller takes itself for the winner.
WonAlways(updated_report) == TRUE

\* if let Some(updated_report) = updated_report.
Won(updated_report) == updated_report # None

\* fishnet::api::get_job: the Job by _id.
get_job(id) == ById(jobs, id)

\* deepq::api::find_report: the Report by _id.
find_report(id) == ById(reports, id)

\* deepq::api::atomically_update_sent_to_irwin, the filter: this report, not
\* yet sent.
SentFilter(r, id) == r._id = id /\ ~r.sent_to_irwin

\* deepq::api::atomically_update_sent_to_irwin, the update.
SentUpdate(r) == [r EXCEPT !.sent_to_irwin = TRUE, !.date_completed = Some("now")]

(***************************************************************************)
(* irwin::api::fishnet_listener: one task; it subscribes, then handles one *)
(* message at a time.  Each action is one await.                           *)
(***************************************************************************)
\* should_stop = true: the loop of the listener ends.
Stop == agg' = [pc |-> "stopped", job |-> None, report |-> None]

\* A handler that ends the listener instead of returning to it.
GiveUp == agg' = [pc |-> "stopped", job |-> None, report |-> None]

\* handle_job_completed returns and the loop of the listener goes on.
Listen == agg' = [pc |-> "recv", job |-> None, report |-> None]

\* A store call of the aggregator that fails: the error is logged.
AggStoreError == storeFaults /\ Listen

\* let mut rx = tx.subscribe().
Subscribe ==
    /\ agg.pc = "start"
    /\ bus' = [bus EXCEPT !.subscribed = TRUE]
    /\ Listen
    /\ UNCHANGED <<storeVars, runVars, ing, workerVars, out, histVars>>

\* A receiver that gives up when it is told that it lagged.
RecvStopsOnLag ==
    /\ agg.pc = "recv"
    /\ IF bus.closed /\ bus.queue = <<>>
       THEN Stop /\ UNCHANGED bus
       ELSE IF bus.lagged
       THEN /\ bus' = [bus EXCEPT !.lagged = FALSE]
            /\ Stop
       ELSE /\ bus.queue # <<>>
            /\ bus' = [bus EXCEPT !.queue = Tail(@)]
            /\ IF Head(bus.queue).type = "JobCompleted"
               THEN agg' = [agg EXCEPT !.pc = "get_job",
                                       !.job = Some(Head(bus.queue).id)]
               ELSE UNCHANGED agg
    /\ UNCHANGED <<storeVars, runVars, ing, workerVars, out, histVars>>

\* rx.recv(): Closed, which recv returns once every Sender is dropped and the
\* queue is read, ends the loop; Lagged is logged; JobAcquired and JobAborted
\* are logged; JobCompleted goes to handle_job_completed.  The listener owns
\* a Sender itself (its tx), so the channel is never closed under it.
Recv ==
    /\ agg.pc = "recv"
    /\ IF bus.closed /\ bus.queue = <<>>
       THEN Stop /\ UNCHANGED bus
       ELSE IF bus.lagged
       THEN /\ bus' = [bus EXCEPT !.lagged = FALSE]
            /\ UNCHANGED agg
       ELSE /\ bus.queue # <<>>
            /\ bus' = [bus EXCEPT !.queue = Tail(@)]
            /\ IF Head(bus.queue).type = "JobCompleted"
               THEN agg' = [agg EXCEPT !.pc = "get_job",
                                       !.job = Some(Head(bus.queue).id)]
               ELSE UNCHANGED agg
    /\ UNCHANGED <<storeVars, runVars, ing, workerVars, out, histVars>>

\* handle_job_completed, get_job: no such job, or a job of no report, ends it.
GetJob ==
    /\ agg.pc = "get_job"
    /\ \/ \E job \in get_job(Unwrap(agg.job)) :
            IF job.report_id # None
            THEN agg' = [agg EXCEPT !.pc = "find_report", !.job = Some(job)]
            ELSE Listen
       \/ get_job(Unwrap(agg.job)) = {} /\ Listen
       \/ AggStoreError
    /\ UNCHANGED <<storeVars, runVars, ing, workerVars, out, bus, histVars>>

\* handle_job_completed, find_report.
FindReport ==
    /\ agg.pc = "find_report"
    /\ LET report_id == Unwrap(Unwrap(agg.job).report_id) IN
       \/ \E report \in find_report(report_id) :
            agg' = [agg EXCEPT !.pc = "percentage", !.report = Some(report)]
       \/ find_report(report_id) = {} /\ Listen
       \/ AggStoreError
    /\ UNCHANGED <<storeVars, runVars, ing, workerVars, out, bus, histVars>>

\* update_report_completeness, report_complete_percentage: below 1 is logged.
Percentage ==
    /\ agg.pc = "percentage"
    /\ \/ IF AtLeastOne(report_complete_percentage(Unwrap(agg.report)))
          THEN agg' = [agg EXCEPT !.pc = "cas"]
          ELSE Listen
       \/ AggStoreError
    /\ UNCHANGED <<storeVars, runVars, ing, workerVars, out, bus, histVars>>

\* update_report_completeness, atomically_update_sent_to_irwin: the caller
\* that finds the report unsent goes on to build the payload.
CompareAndSwap ==
    /\ agg.pc = "cas"
    /\ LET id == Unwrap(agg.report)._id
           matched == {r \in reports : SentFilter(r, id)}
           updated_report == IF matched = {} THEN None
                             ELSE Some(CHOOSE r \in matched : TRUE)
       IN
       \/ /\ reports' = {IF SentFilter(r, id) THEN SentUpdate(r) ELSE r : r \in reports}
          /\ casWins' = IF matched # {} THEN [casWins EXCEPT ![id] = @ + 1] ELSE casWins
          /\ IF Won(updated_report)
             THEN agg' = [agg EXCEPT !.pc = "build"]
             ELSE Listen
       \/ /\ AggStoreError
          /\ UNCHANGED <<reports, casWins>>
    /\ UNCHANGED <<jobs, games, analysis, runVars, ing, workerVars, out, bus,
                   nCreated, payloads>>

\* update_report_completeness, irwin_job_from_report and serde_json: the
\* payload is logged, an error is returned and logged by the caller.
BuildPayload ==
    /\ agg.pc = "build"
    /\ LET report == Unwrap(agg.report) IN
       \/ /\ payloads' = IF irwin_job_from_report(report).ok
                         THEN [payloads EXCEPT ![report._id] = @ + 1]
                         ELSE payloads
          /\ Listen
       \/ /\ AggStoreError
          /\ UNCHANGED payloads
    /\ UNCHANGED <<storeVars, runVars, ing, workerVars, out, bus,
                   nCreated, casWins>>

Aggregator ==
    Subscribe \/ Recv \/ GetJob \/ FindReport \/ Percentage \/ CompareAndSwap
      \/ BuildPayload


(***************************************************************************)
(* Initial states.  The broker starts on a store that holds the ApiUsers   *)
(* and a pool of queued jobs: each job as From<CreateJob> makes it, of any *)
(* kind, precedence and age, its game stored or (for at most one job)      *)
(* missing.  Job ids are ObjectIds and carry no meaning, so the pool is     *)
(* listed in one order only.                                               *)
(***************************************************************************)
PoolKinds == {"Deep", "UserAnalysis"}
PoolOrigins == {"Random", "Moderator"}

PoolChoice == [analysis_type : PoolKinds, origin : PoolOrigins, date : Times]

ChoiceRank(c) ==
    (IF c.analysis_type = "Deep" THEN 0 ELSE 1) * 2 * MaxJobs
    + (IF c.origin = "Random" THEN 0 ELSE 1) * MaxJobs
    + (c.date - 1)

PoolJob(id, c) ==
    JobFromCreateJob(id,
        CreateJob(id, None, c.analysis_type, precedence_for_origin(c.origin)),
        c.date)

Pools ==
    UNION {{ {PoolJob(i, f[i]) : i \in 1..n} :
             f \in {g \in [1..n -> PoolChoice] :
                      \A i \in 1..n : i < n => ChoiceRank(g[i]) <= ChoiceRank(g[i+1])} } :
           n \in 1..MaxJobs}

GamePgn == <<"e2e4", "e7e5">>

GameDoc(id) == [_id |-> id, pgn |-> GamePgn]

InitBus == [subscribed |-> FALSE, queue |-> <<>>, lagged |-> FALSE, dropped |-> FALSE,
            closed |-> FALSE]

InitAgg == [pc |-> "start", job |-> None, report |-> None]

InitIng == [pc |-> "connect", request |-> None, report_id |-> None, left |-> {},
            lines |-> 0, logged |-> 0, exit |-> None]

InitIdle ==
    /\ pc = [u \in Workers |-> "idle"]
    /\ cur = [u \in Workers |-> None]
    /\ body = [u \in Workers |-> <<>>]
    /\ out = Reply(0, None, <<>>)
    /\ bus = InitBus
    /\ agg = InitAgg
    /\ ing = InitIng
    /\ nAcquired = 0
    /\ handed = {}
    /\ casWins = [r \in ReportIds |-> 0]
    /\ payloads = [r \in ReportIds |-> 0]

InitPool ==
    /\ jobs \in Pools
    /\ \E missing \in SUBSET {d.game_id : d \in jobs} :
          /\ Cardinality(missing) <= 1
          /\ games = {GameDoc(g) : g \in {d.game_id : d \in jobs} \ missing}
    /\ reports = {}
    /\ analysis = <<>>
    /\ nCreated = Cardinality(jobs)

(***************************************************************************)
(* SpecAcquire: workers that only acquire, over a pool of queued jobs.     *)
(***************************************************************************)
InitAcquire ==
    /\ InitPool
    /\ InitIdle
    /\ storeFaults = TRUE
    /\ inputs = {}
    /\ clients = Workers

\* The history of acquisitions.  FindGame ends the request only by the 200,
\* and the worker then holds the job; a job that loses its owner or is deleted
\* is held by no one.
Handed(u) ==
    handed' = IF pc'[u] = "idle" THEN handed \cup {<<u, Unwrap(cur[u])._id>>}
                                 ELSE handed

Counted(u) == nAcquired' = nAcquired + (IF pc'[u] = "idle" THEN 1 ELSE 0)

Released ==
    {d._id : d \in {x \in jobs : /\ x.owner # None
                                 /\ \A e \in jobs' : e._id = x._id => e.owner = None}}

Kept == handed' = {h \in handed : h[2] \notin Released}

Held(u) == IF pc[u] = "find_game" THEN Handed(u) ELSE Kept

NextAcquire ==
    \E u \in Workers :
        \/ AssignJob(u) /\ Kept /\ UNCHANGED nAcquired
        \/ FindGame(u) /\ Handed(u) /\ Counted(u)
        \/ UnassignOnError(u) /\ Kept /\ UNCHANGED nAcquired
        \/ DeleteJob(u) /\ Kept /\ UNCHANGED nAcquired

SpecAcquire == InitAcquire /\ [][NextAcquire]_vars


(***************************************************************************)
(* Claims about acquire.                                                   *)
(***************************************************************************)
Holders(j) == {u \in Workers : <<u, j>> \in handed}

KeyOf(u) == Some(KeyToBson(ApiUserColl[u].key))

\* The kinds, as stored, that a worker's ApiUser is permitted.
PermittedKinds(u) == {AnalysisTypeSerde(p) : p \in ApiUserColl[u].perms}

\* The step in which acquire_job's assign_job claims a job for worker u.
Claims(u) == pc[u] = "idle" /\ pc'[u] = "find_game"

\* C1: workers that only acquire never get the same job twice: a job is handed
\* to at most one worker, it is then owned under that worker's key, and the
\* acquisitions answered with a job never outnumber the jobs queued.
SingleOwner ==
    /\ \A j \in JobIds : Cardinality(Holders(j)) <= 1
    /\ \A h \in handed : \E d \in jobs : d._id = h[2] /\ d.owner = KeyOf(h[1])
    /\ \A d \in jobs : Cardinality(d.owner) <= 1
    /\ nAcquired <= nCreated

\* C1 witness: the two Deep workers each hold a job and the pool is exhausted.
SingleOwnerWitness ==
    /\ nAcquired = 2
    /\ Holders(1) \cup Holders(2) = {"u1", "u2"}
    /\ nCreated = 2
    /\ out = Reply(204, None, <<>>)

\* C5: the job a single acquire claims has the greatest precedence among the
\* queued jobs of the kinds the worker is permitted.
PriorityOrdering ==
    [][\A u \in Workers : Claims(u) =>
         \A e \in jobs :
            (e.owner = None /\ e.analysis_type \in PermittedKinds(u))
               => e.precedence <= Unwrap(cur'[u]).precedence]_vars

\* C5 witness: a worker has claimed a moderator job while a random job of a
\* kind it is permitted is still queued.
PriorityOrderingWitness ==
    \E u \in Workers :
        /\ pc[u] = "find_game"
        /\ Unwrap(cur[u]).precedence = PrecModerator
        /\ \E e \in jobs : /\ e.owner = None
                           /\ e.analysis_type \in PermittedKinds(u)
                           /\ e.precedence = PrecRandom

\* C6: among the queued jobs of its kind and precedence, the job a single
\* acquire claims has the smallest date_last_updated.
AgeTiebreak ==
    [][\A u \in Workers : Claims(u) =>
         LET d == Unwrap(cur'[u]) IN
         \A e \in jobs :
            (/\ e.owner = None
             /\ e.analysis_type = d.analysis_type
             /\ e.precedence = d.precedence)
               => d.date_last_updated <= e.date_last_updated]_vars

\* C6 witness: a worker has claimed the older of two jobs of one kind and
\* precedence, the younger still queued.
AgeTiebreakWitness ==
    \E u \in Workers :
        /\ pc[u] = "find_game"
        /\ \E e \in jobs : /\ e.owner = None
                           /\ e.analysis_type = Unwrap(cur[u]).analysis_type
                           /\ e.precedence = Unwrap(cur[u]).precedence
                           /\ e.date_last_updated > Unwrap(cur[u]).date_last_updated

\* C7: acquire claims and returns only jobs of a kind in the worker's perms,
\* and changes no other job: a queued job of another kind stays queued.
PermissionFiltering ==
    [][\A u \in Workers :
         /\ Claims(u) =>
              /\ Unwrap(cur'[u]).analysis_type \in PermittedKinds(u)
              /\ \A e \in jobs : e._id # Unwrap(cur'[u])._id => e \in jobs'
         /\ (pc[u] = "find_game" /\ pc'[u] = "idle" /\ out'.status = 200) =>
              Unwrap(cur[u]).analysis_type \in PermittedKinds(u)]_vars

\* C7 witness: the first request of a run was answered 204 while the pool held
\* Deep jobs only, all still queued: the request of a worker not permitted Deep.
PermissionFilteringWitness ==
    /\ out = Reply(204, None, <<>>)
    /\ \A u \in Workers : pc[u] = "idle"
    /\ jobs # {}
    /\ \A d \in jobs : d.analysis_type = "deep" /\ d.owner = None


(***************************************************************************)
(* What the workers of a run submit, and who they are.                     *)
(***************************************************************************)
\* Two plies, as GamePgn has two moves: a complete analysis with scores, and
\* a progress report whose second slot is still null.
AnalysisComplete ==
    <<Some(Best(ScoreCp(12))), Some(Matrix(<<<<None, Some(ScoreCp(30))>>>>))>>

AnalysisPartial == <<Some(Best(ScoreCp(12))), None>>

\* The workers of a run, MaxClients of them.
MaxClients == 2

ClientSets == {c \in SUBSET Workers : Cardinality(c) = Min(MaxClients, Cardinality(Workers))}


(***************************************************************************)
(* Reports as add_to_queue stores them: the games, the report, one Deep    *)
(* job per game.                                                           *)
(***************************************************************************)
\* From<CreateReport> for Report.
ReportFromCreateReport(id, create) ==
    [_id |-> id,
     user_id |-> create.user_id,
     date_completed |-> None,
     origin |-> create.origin,
     games |-> create.games,
     sent_to_irwin |-> FALSE]

CreateReport(user_id, origin, game_ids) ==
    [user_id |-> user_id, origin |-> origin, games |-> game_ids]

\* From<Request> for Vec<CreateJob>, with the report add_to_queue has stored:
\* one Deep job per game, its precedence the origin's.
CreateJobsFromRequest(report) ==
    {CreateJob(g, Some(report._id), "Deep", precedence_for_origin(report.origin)) :
        g \in report.games}

InitReports ==
    \E n \in 1..MaxJobs, k \in 1..MaxReports :
    \E of \in [1..n -> 1..k] :
    LET origin == "Moderator" IN
        /\ \A i \in 1..n : i < n => of[i] <= of[i + 1]
        /\ reports = {ReportFromCreateReport(r,
                          CreateReport("alice", origin, {g \in 1..n : of[g] = r})) :
                      r \in 1..k}
        /\ jobs = UNION {{JobFromCreateJob(c.game_id, c, 1) :
                            c \in CreateJobsFromRequest(report)} : report \in reports}
        /\ games = {GameDoc(g) : g \in 1..n}
        /\ analysis = <<>>
        /\ nCreated = n

(***************************************************************************)
(* SpecBroker: workers that acquire, abort and report analysis on the jobs *)
(* of stored reports; nothing listens on the bus.                          *)
(***************************************************************************)
InitBroker ==
    /\ InitReports
    /\ InitIdle
    /\ storeFaults = TRUE
    /\ inputs = {AnalysisComplete, AnalysisPartial}
    /\ clients \in ClientSets

NextBroker ==
    \E u \in Workers :
        \/ Acquire(u) /\ Held(u) /\ UNCHANGED nAcquired
        \/ Abort(u) /\ Kept /\ UNCHANGED nAcquired
        \/ SaveAnalysis(u) /\ Kept /\ UNCHANGED nAcquired

SpecBroker == InitBroker /\ [][NextBroker]_vars

(***************************************************************************)
(* SpecShip: workers that acquire and report analysis, and the aggregator, *)
(* which the runtime schedules whenever it can run.                        *)
(***************************************************************************)
InitShip ==
    /\ InitReports
    /\ InitIdle
    /\ storeFaults = TRUE
    /\ inputs = {AnalysisComplete, AnalysisPartial}
    /\ clients \in ClientSets

NextShip ==
    \/ \E u \in Workers : Acquire(u) /\ UNCHANGED acquiredVars
    \/ \E u \in Workers : SaveAnalysis(u) /\ UNCHANGED acquiredVars
    \/ Aggregator /\ UNCHANGED acquiredVars

SpecShip == InitShip /\ [][NextShip]_vars /\ WF_vars(Aggregator /\ UNCHANGED acquiredVars)


(***************************************************************************)
(* Claims about abort and the states of a job.                             *)
(***************************************************************************)
\* The step in which abort_job, its store call done, answers worker u about
\* job j.
Aborts(u, j) == Idle(u) /\ Unassigned(u, j)

\* C8: an abort by a worker of a job held by another worker changes no job
\* and is answered 204, whoever the two ApiUsers are.
AbortIsLocal ==
    [][\A u1 \in Workers, u2 \in Workers, j \in JobIds :
         (u1 # u2 /\ <<u1, j>> \in handed /\ Aborts(u2, j))
            => (jobs' = jobs /\ out'.status = 204)]_vars

\* C9: an abort publishes JobAborted only if its update matched a job owned
\* by the caller; an abort that matched nothing publishes nothing and is
\* still answered 204.
AbortEmitsOnMatch ==
    [][\A u \in Workers, j \in JobIds :
         Aborts(u, j) =>
            /\ out'.status = 204
            /\ (out'.msgs # <<>>) =
                 (\E d \in jobs : d._id = j /\ d.owner = KeyOf(u))]_vars

\* C10: every job is in exactly one of the states queued (no owner), in
\* flight (an owner, not complete) and terminal (complete); none is complete
\* with no owner.
Queued(d) == d.owner = None

InFlight(d) == d.owner # None /\ ~d.is_complete

Terminal(d) == d.is_complete

InitHappy ==
    /\ InitReports
    /\ InitIdle
    /\ storeFaults = FALSE
    /\ inputs = {AnalysisComplete, AnalysisPartial}
    /\ clients \in ClientSets

SpecHappy == InitHappy /\ [][NextShip]_vars /\ WF_vars(Aggregator /\ UNCHANGED acquiredVars)

(***************************************************************************)
(* Claims about the aggregator.                                            *)
(***************************************************************************)
Sent(id) == \E r \in reports : r._id = id /\ r.sent_to_irwin

\* The report has jobs and every one of them is complete.
AllComplete(id) ==
    /\ find_by_report(id) # {}
    /\ \A d \in find_by_report(id) : d.is_complete

\* C2: for every report at most one compare-and-swap of the sent bit wins,
\* only a winner builds a payload, and the bit, once true, stays true,
\* however often JobCompleted is handled.
ExactlyOnceShip ==
    /\ [](\A id \in ReportIds :
            /\ casWins[id] <= 1
            /\ payloads[id] <= casWins[id]
            /\ Sent(id) <=> casWins[id] = 1)
    /\ [][\A id \in ReportIds : Sent(id) => Sent(id)']_vars

\* C2 witness: the report is sent and its payload built, and the aggregator,
\* handling a further JobCompleted, is about to try the compare-and-swap again.
ExactlyOnceShipWitness ==
    /\ agg.pc = "cas"
    /\ Sent(Unwrap(agg.report)._id)
    /\ payloads[Unwrap(agg.report)._id] = 1

\* C4: a report is sent only if every job of it was complete when the
\* aggregator checked; a check that finds a job of the report not complete
\* goes back to listening, the reports unchanged, and only the
\* compare-and-swap changes a report.
CompletenessGate ==
    /\ [](\A id \in ReportIds : Sent(id) => AllComplete(id))
    /\ [](agg.pc \in {"cas", "build"} => AllComplete(Unwrap(agg.report)._id))
    /\ [][(agg.pc = "percentage" /\ agg' # agg
               /\ ~AllComplete(Unwrap(agg.report)._id))
             => (agg'.pc = "recv" /\ reports' = reports)]_vars
    /\ [][reports' # reports => agg.pc = "cas"]_vars

\* C4 witness: the aggregator is checking a report of two jobs of which one
\* is complete.
CompletenessGateWitness ==
    /\ agg.pc = "percentage"
    /\ report_complete_percentage(Unwrap(agg.report)) = [num |-> 1, den |-> 2]
    /\ ~Sent(Unwrap(agg.report)._id)

\* A complete analysis every slot of which gives a score.
ScoreBearing(a) ==
    /\ is_complete(a)
    /\ \A i \in DOMAIN a : from_ply_analysis("", Unwrap(a[i]), FALSE).ok

\* Every job of the report is complete and has such an analysis stored.
AllSubmitted(id) ==
    /\ AllComplete(id)
    /\ \A d \in find_by_report(id) :
          \E i \in DOMAIN analysis : /\ analysis[i].job_id = d._id
                                     /\ ScoreBearing(analysis[i].analysis)

\* C3: on a store that does not fail, once every job of a report is complete
\* with a score-bearing analysis stored, then, unless a message of the bus is
\* dropped, the report is eventually sent with exactly one payload built.
HappyPathShips ==
    \A id \in ReportIds :
        (~storeFaults /\ AllSubmitted(id) /\ ~bus.dropped)
            ~> (bus.dropped \/ (Sent(id) /\ payloads[id] = 1))


(***************************************************************************)
(* Claims about the life of a job: who releases it and who completes it.   *)
(***************************************************************************)
\* Worker u is the owner of job j: the job is stored under u's key and, if
\* an acquire was answered 200 with j, it was u's.
Owns(u, j) ==
    /\ \E d \in jobs : d._id = j /\ d.owner = KeyOf(u)
    /\ Holders(j) # {} => u \in Holders(j)

\* The step sets the owner of job j, which had one, to null.
OwnerCleared(j) ==
    /\ \E d \in jobs : d._id = j /\ d.owner # None
    /\ \E e \in jobs' : e._id = j /\ e.owner = None

\* The step in which acquire_job, find_game having failed, releases job j.
ReleasedOnError(u, j) ==
    /\ pc[u] = "unassign_job"
    /\ Unwrap(cur[u])._id = j
    /\ pc'[u] = "idle"

\* C11: every step that clears the owner of a job is an abort of that job by
\* the worker that acquired it, or that worker's acquire releasing the job
\* after a failed game fetch; no other step does.
ReleaseOnlyByOwnerAbort ==
    [][\A j \in JobIds :
         OwnerCleared(j) =>
            \E u \in Workers :
               Owns(u, j) /\ (Aborts(u, j) \/ ReleasedOnError(u, j))]_vars

\* An analysis array without a null slot.
NoNullSlot(a) == \A i \in DOMAIN a : a[i] # None

\* The step sets is_complete of job j, which was false, to true.
Completed(j) ==
    /\ \E d \in jobs : d._id = j /\ ~d.is_complete
    /\ \E e \in jobs' : e._id = j /\ e.is_complete

\* The step sets is_complete of job j, which was true, to false.
Uncompleted(j) ==
    /\ \E d \in jobs : d._id = j /\ d.is_complete
    /\ \E e \in jobs' : e._id = j /\ ~e.is_complete

\* The step in which save_job_analysis, handling a submission of worker u
\* for job j that has no null slot, marks the job complete.
CompletesOwn(u, j) ==
    /\ pc[u] = "set_complete"
    /\ Unwrap(cur[u])._id = j
    /\ NoNullSlot(body[u])

\* C12: a job is not complete until a submission without a null slot is
\* stored for it; the only step that sets is_complete is the analysis sink
\* handling such a submission from the job's owner; no step sets it back.
CompleteOnlyBySink ==
    /\ [](\A d \in jobs :
            d.is_complete =>
               \E i \in DOMAIN analysis : /\ analysis[i].job_id = d._id
                                          /\ NoNullSlot(analysis[i].analysis))
    /\ [][\A j \in JobIds :
            /\ ~Uncompleted(j)
            /\ Completed(j) =>
                 \E u \in Workers : Owns(u, j) /\ CompletesOwn(u, j)]_vars

\* The step in which save_job_analysis, for worker u, finds job j as a job of
\* that worker.
FindsOwn(u, j) ==
    /\ Idle(u)
    /\ pc'[u] = "upsert"
    /\ Unwrap(cur'[u])._id = j

\* C13: the owner of a job is null or the key of an ApiUser, as that ApiUser
\* holds it; the job an acquire returned is owned by exactly the key the
\* worker presented; and neither abort nor the analysis sink takes a job one
\* ApiUser acquired for a job of another.
OwnerIsApiUserKey ==
    /\ [](\A d \in jobs : d.owner # None => get_api_user(Unwrap(d.owner)) # {})
    /\ [](\A h \in handed :
            \E d \in jobs : d._id = h[2] /\ d.owner = Some(ApiUserColl[h[1]].key))
    /\ [][\A u1 \in Workers, u2 \in Workers, j \in JobIds :
            (u1 # u2 /\ <<u1, j>> \in handed) =>
               /\ ~(Aborts(u2, j) /\ jobs' # jobs)
               /\ ~FindsOwn(u2, j)]_vars


(***************************************************************************)
(* Claims about a job whose game is missing.                               *)
(***************************************************************************)
JobExists(j) == \E d \in jobs : d._id = j

\* C14: unless a store call fails, an acquire that has claimed a job whose
\* game is not stored deletes the job and answers 204, publishing nothing; an
\* acquire is answered 200 only with a job whose game is stored; a deleted
\* job does not come back and is held by no worker.
MissingGameDeletes ==
    /\ [](\A u \in Workers :
            pc[u] = "delete_job" => find_game(Unwrap(cur[u]).game_id) = {})
    /\ [](\A h \in handed :
            \E d \in jobs : d._id = h[2] /\ find_game(d.game_id) # {})
    /\ [][\A u \in Workers :
            /\ (pc[u] = "find_game" /\ find_game(Unwrap(cur[u]).game_id) = {})
                 => pc'[u] \in {"find_game", "delete_job", "unassign_job"}
            /\ (pc[u] = "delete_job" /\ pc'[u] = "idle" /\ out'.status # 500)
                 => /\ out' = Reply(204, None, <<>>)
                    /\ \A e \in jobs' : e._id # Unwrap(cur[u])._id
                    /\ bus' = bus]_vars
    /\ [][\A j \in JobIds : ~JobExists(j) => ~JobExists(j)']_vars

\* C14 witness: an acquire has been answered 204 after deleting a job of the
\* pool, whose game is not stored; no worker holds anything.
MissingGameDeletesWitness ==
    /\ out = Reply(204, None, <<>>)
    /\ Cardinality(jobs) < nCreated
    /\ \E g \in GameIds : g <= nCreated /\ find_game(g) = {} /\ \A d \in jobs : d.game_id # g
    /\ handed = {}


(***************************************************************************)
(* Claims about the analysis sink.                                         *)
(***************************************************************************)
\* C15: unless the store call fails, a submission for job j by a worker that
\* does not own j (no such job, a job of another worker, a queued job) is
\* answered 404: it is not taken further, nothing is stored, no job changes
\* and nothing is published.
SinkRejectsNonOwner ==
    [][\A u \in Workers, j \in JobIds, a \in inputs :
         (~Owns(u, j) /\ GetUserJob(u, j, a) /\ out'.status # 500) =>
            /\ out' = Reply(404, None, <<>>)
            /\ pc'[u] = "idle"
            /\ UNCHANGED <<storeVars, bus>>]_vars

\* The step in which save_job_analysis stores the submission of worker u.
Stores(u) == pc[u] = "upsert" /\ pc'[u] # "upsert" /\ analysis' # analysis

\* The step in which save_job_analysis, having marked the job complete,
\* answers worker u.
AnswersComplete(u) == pc[u] = "set_complete" /\ pc'[u] = "idle" /\ out'.status # 500

\* C16: unless a store call fails, a submission is stored as it is; one with
\* a null slot is then answered 204 with no job changed and nothing
\* published; one without a null slot goes on to mark its job complete and
\* publish JobCompleted for it, and is answered 204; is_complete is set and
\* JobCompleted published by no other step.
CompleteIffNoNull ==
    [][/\ \A u \in Workers :
            /\ Stores(u) =>
                 /\ Len(analysis') = Len(analysis) + 1
                 /\ analysis'[Len(analysis')].analysis = body[u]
                 /\ analysis'[Len(analysis')].job_id = Unwrap(cur[u])._id
                 /\ jobs' = jobs /\ bus' = bus
                 /\ IF NoNullSlot(body[u])
                    THEN pc'[u] = "set_complete"
                    ELSE pc'[u] = "idle" /\ out' = Reply(204, None, <<>>)
            /\ AnswersComplete(u) =>
                 LET j == Unwrap(cur[u])._id IN
                 /\ NoNullSlot(body[u])
                 /\ \A d \in jobs' : d._id = j => d.is_complete
                 /\ bus' = BroadcastSend(bus, JobCompleted(j))
                 /\ out' = Reply(204, None, <<JobCompleted(j)>>)
       /\ \A j \in JobIds :
            (Completed(j) \/ (out' # out /\ out'.msgs = <<JobCompleted(j)>>))
               => \E u \in Workers : CompletesOwn(u, j) /\ AnswersComplete(u)]_vars

\* C16 witness: a submission without a null slot has completed its job and
\* its JobCompleted waits on the bus; a submission with a null slot for the
\* other job has just been answered 204, that job not complete.
CompleteIffNoNullWitness ==
    /\ out = Reply(204, None, <<>>)
    /\ \A u \in Workers : pc[u] = "idle"
    /\ Len(analysis) = 2
    /\ NoNullSlot(analysis[1].analysis)
    /\ ~NoNullSlot(analysis[2].analysis)
    /\ \E d \in jobs : d._id = analysis[1].job_id /\ d.is_complete
    /\ \E d \in jobs : d._id = analysis[2].job_id /\ ~d.is_complete
    /\ \E i \in DOMAIN bus.queue : bus.queue[i] = JobCompleted(analysis[1].job_id)

\* The GameAnalysis documents stored for job j.
AnalysesOf(coll, j) == {i \in DOMAIN coll : coll[i].job_id = j}

\* C17: once a submission for a job is stored, the store holds exactly one
\* GameAnalysis for that job and its analysis array is the one submitted.
AnalysisOverwritten ==
    [][\A u \in Workers :
         Stores(u) =>
            LET j == Unwrap(cur[u])._id IN
            /\ Cardinality(AnalysesOf(analysis', j)) = 1
            /\ \A i \in AnalysesOf(analysis', j) : analysis'[i].analysis = body[u]]_vars


(***************************************************************************)
(* SpecPayload: the aggregator handling the completion of the one job of a *)
(* report, over every analysis a worker may have stored for it: arrays of  *)
(* up to MaxPlies slots of every variant, for a game of two moves; either  *)
(* one submission without a null slot, or a progress report before it.     *)
(***************************************************************************)
MaxPlies == 3       \* slots of a submitted analysis array

\* The slots a worker may send, one of each kind.
PlySlots ==
    <<None,
      Some(Skipped),
      Some(Empty(ScoreCp(5))),
      Some(Best(ScoreCp(12))),
      Some(Best(ScoreMate(0 - 3))),
      Some(Matrix(<<<<None>>>>)),
      Some(Matrix(<<<<None, None>>, <<Some(ScoreCp(30)), Some(ScoreCp(40)), None>>>>)),
      Some(Matrix(<<<<Some(ScoreMate(2))>>>>))>>

\* An analysis array, given by the numbers of its slots in PlySlots.
AnalysisArray(x) == [i \in DOMAIN x |-> PlySlots[x[i]]]

AnalysisArrays == UNION {[1..n -> DOMAIN PlySlots] : n \in 0..MaxPlies}

\* What deepq_analysis may hold for a job that is complete.
SubmissionHistories ==
    {<<a>> : a \in {x \in AnalysisArrays : is_complete(AnalysisArray(x))}}
      \cup {<<a, b>> :
              a \in {x \in AnalysisArrays :
                        Len(x) = Len(GamePgn) /\ ~is_complete(AnalysisArray(x))},
              b \in {x \in AnalysisArrays :
                        Len(x) = Len(GamePgn) /\ is_complete(AnalysisArray(x))}}

InitPayload ==
    LET report == ReportFromCreateReport(1, CreateReport("alice", "Moderator", {1}))
        job == [JobFromCreateJob(1, CHOOSE c \in CreateJobsFromRequest(report) : TRUE, 1)
                    EXCEPT !.owner = Some(KeyToBson(ApiUserColl["u1"].key)),
                           !.is_complete = TRUE]
    IN  /\ reports = {report}
        /\ jobs = {job}
        /\ games = {GameDoc(1)}
        /\ \E h \in SubmissionHistories :
              analysis = [i \in DOMAIN h |->
                             GameAnalysisFrom(i, job, ApiUserColl["u1"],
                                              AnalysisArray(h[i]))]
        /\ storeFaults = FALSE
        /\ inputs = {}
        /\ clients = {}
        /\ pc = [u \in Workers |-> "idle"]
        /\ cur = [u \in Workers |-> None]
        /\ body = [u \in Workers |-> <<>>]
        /\ out = Reply(204, None, <<JobCompleted(1)>>)
        /\ bus = [InitBus EXCEPT !.subscribed = TRUE]
        /\ agg = [pc |-> "percentage", job |-> Some(job), report |-> Some(report)]
        /\ ing = InitIng
        /\ nCreated = 1
        /\ nAcquired = 1
        /\ handed = {<<"u1", 1>>}
        /\ casWins = [r \in ReportIds |-> 0]
        /\ payloads = [r \in ReportIds |-> 0]

NextPayload ==
    \/ Percentage /\ UNCHANGED acquiredVars
    \/ CompareAndSwap /\ UNCHANGED acquiredVars
    \/ BuildPayload /\ UNCHANGED acquiredVars

SpecPayload == InitPayload /\ [][NextPayload]_vars


(***************************************************************************)
(* Claims about the payload for irwin.                                     *)
(***************************************************************************)
\* The step in which update_report_completeness ends without a payload, the
\* analysis stored for the report giving no score for some ply.
ShipRefused ==
    /\ agg.pc = "build"
    /\ agg'.pc = "recv"
    /\ ~irwin_job_from_report(Unwrap(agg.report)).ok
    /\ payloads' = payloads

\* C18: when the payload of a report cannot be built because a ply has no
\* score, the report is left with sent_to_irwin = false.
RefusedStaysUnsent ==
    [][ShipRefused =>
          \A r \in reports' : r._id = Unwrap(agg.report)._id => ~r.sent_to_irwin]_vars

\* The step in which update_report_completeness builds or refuses the payload.
Builds == agg.pc = "build" /\ agg'.pc = "recv"

\* The slot holds an analysis with a score: a Best, or a Matrix with a score
\* that is not null.
YieldsScore(slot) ==
    /\ slot # None
    /\ \/ Unwrap(slot).t = "Best"
       \/ /\ Unwrap(slot).t = "Matrix"
          /\ \E r \in DOMAIN Unwrap(slot).score :
                \E c \in DOMAIN Unwrap(slot).score[r] : Unwrap(slot).score[r][c] # None

\* Every slot of the stored analysis holds a score.
EveryPlyYields(ga) == \A i \in DOMAIN ga.analysis : YieldsScore(ga.analysis[i])

\* C19: a payload is built if and only if every ply of every analysis stored
\* for the report yields a score: a slot that is null, Skipped, Empty or a
\* Matrix without a score refuses it.
PayloadRefusal ==
    [][Builds =>
          (payloads' # payloads) =
             (\A i \in DOMAIN find_by_jobs({d._id : d \in find_by_report(Unwrap(agg.report)._id)}) :
                 EveryPlyYields(find_by_jobs({d._id : d \in find_by_report(Unwrap(agg.report)._id)})[i]))]_vars

\* The score the engine gave for a ply: that of a Best; for a Matrix the
\* deepest score of the first line that has one.
EngineScore(ply_analysis) ==
    IF ply_analysis.t = "Best" THEN ply_analysis.score
    ELSE LET rows == ply_analysis.score
             first == CHOOSE r \in DOMAIN rows :
                        /\ \E c \in DOMAIN rows[r] : rows[r][c] # None
                        /\ \A q \in 1..(r - 1) : \A c \in DOMAIN rows[q] : rows[q][c] = None
             deepest == CHOOSE c \in DOMAIN rows[first] :
                          /\ rows[first][c] # None
                          /\ \A e \in DOMAIN rows[first] : e > c => rows[first][e] = None
         IN  Unwrap(rows[first][deepest])

\* The evaluation of a score from White's side, for the ply of index num
\* (from 0): the score on even plies, its negation on odd ones.
WhiteEval(score, num) ==
    LET n == IF num % 2 = 1 THEN 0 - score.n ELSE score.n
    IN  IF score.kind = "cp" THEN [cp |-> Some(n), mate |-> None]
                             ELSE [cp |-> None, mate |-> Some(n)]

\* C20: in a payload that is built, the evaluation of every ply is the
\* engine's score for it, negated on the plies of odd index and as it is on
\* those of even index, for Best and for Matrix analyses alike.
WhitePerspective ==
    [][(Builds /\ payloads' # payloads) =>
          LET job == irwin_job_from_report(Unwrap(agg.report)).val IN
          \A k \in DOMAIN job.games :
             \A i \in DOMAIN job.games[k].analysis :
                job.games[k].analysis[i]
                   = WhiteEval(EngineScore(Unwrap(analysis[k].analysis[i])), i - 1)]_vars

(***************************************************************************)
(* irwin::api: a review request and its conversion.  A position is known   *)
(* by the moves played from Chess::default(); San::to_move resolves a SAN  *)
(* move in a position or fails, and only the moves of the games used here  *)
(* resolve.                                                                *)
(***************************************************************************)
MaxMoves == 2       \* SAN moves of a game of a request
MaxGames == 2       \* games of a request
MaxLines == 2       \* lines the upstream sends in a run

SanMoves == {"e4", "e5"}

to_move(san, pos) ==
    IF pos = <<>> /\ san = "e4" THEN Ok("e2e4")
    ELSE IF pos = <<"e2e4">> /\ san = "e5" THEN Ok("e7e5")
    ELSE Err("SanError")

RECURSIVE Replay(_, _)
Replay(pgn, pos) ==
    IF pgn = <<>> THEN Ok(pos)
    ELSE LET m == to_move(Head(pgn), pos) IN
         IF m.ok THEN Replay(Tail(pgn), Append(pos, m.val)) ELSE m

\* uci_from_san: the UCI moves of a SAN move list, or the first error.
uci_from_san(pgn) == Replay(pgn, <<>>)

\* TryFrom<&RequestGame> for CreateGame.
CreateGameFrom(g) ==
    LET uci == uci_from_san(g.pgn) IN
    IF uci.ok THEN Ok([_id |-> g.id, pgn |-> uci.val]) ELSE uci

\* A conversion of the games that leaves out those that do not convert.
CreateGamesLenient(request_games) ==
    Ok({CreateGameFrom(request_games[i]).val :
           i \in {k \in DOMAIN request_games : CreateGameFrom(request_games[k]).ok}})

\* request.games.iter().map(TryInto::try_into).collect::<Result<Vec<_>>>():
\* every game converted, or the first error.
CreateGamesFrom(request_games) ==
    IF \A i \in DOMAIN request_games : CreateGameFrom(request_games[i]).ok
    THEN Ok({CreateGameFrom(request_games[i]).val : i \in DOMAIN request_games})
    ELSE CreateGameFrom(request_games[
             CHOOSE i \in DOMAIN request_games :
                /\ ~CreateGameFrom(request_games[i]).ok
                /\ \A k \in 1..(i - 1) : CreateGameFrom(request_games[k]).ok])

\* From<Request> for CreateReport.
CreateReportFrom(request) ==
    CreateReport(request.user, request.origin,
                 [i \in DOMAIN request.games |-> request.games[i].id])

\* From<Request> for Vec<CreateJob> as it is before add_to_queue fills in the
\* report_id.
CreateJobsUnlinked(request, report_id) ==
    [i \in DOMAIN request.games |->
        CreateJob(request.games[i].id, None, "Deep",
                  precedence_for_origin(request.origin))]

\* From<Request> for Vec<CreateJob>, and the report_id add_to_queue fills in.
CreateJobsFrom(request, report_id) ==
    [i \in DOMAIN request.games |->
        CreateJob(request.games[i].id, Some(report_id), "Deep",
                  precedence_for_origin(request.origin))]

\* deepq::api::insert_one_game: an upsert keyed on the game id.
insert_one_game(game) == {d \in games : d._id # game._id} \cup {game}

\* The review requests of the stream: up to MaxGames games of distinct ids,
\* each a SAN move list of up to MaxMoves moves, legal or not.
Pgns == UNION {[1..n -> SanMoves] : n \in 0..MaxMoves}

Requests ==
    {[origin |-> o, user |-> "alice", games |-> gs] :
        o \in ReportOrigin,
        gs \in {s \in UNION {[1..n -> [id : 1..MaxGames, pgn : Pgns]] : n \in 1..MaxGames} :
                   \A i, k \in DOMAIN s : i # k => s[i].id # s[k].id}}

(***************************************************************************)
(* main::deepq_irwin_job_listener and irwin::api::add_to_queue: one task;  *)
(* each action is one await.  An error that `?` propagates out of the      *)
(* listener ends the task with that error.                                 *)
(***************************************************************************)
Exit(e) == ing' = [ing EXCEPT !.pc = "exited", !.exit = Some(e)]

\* irwin::stream::listener(..).await?: the request is sent, or fails.
Connect ==
    /\ ing.pc = "connect"
    /\ \/ ing' = [ing EXCEPT !.pc = "read"]
       \/ Exit("ReqwestError")
    /\ UNCHANGED <<storeVars, runVars, workerVars, out, aggVars, histVars, acquiredVars>>

\* stream.next().await: a keep-alive, one
\* of the upstream's requests, a line that does not parse or a read that fails
\* (logged), or the end of the stream.
StreamNextFrom(requests) ==
    /\ ing.pc = "read"
    /\ \/ /\ ing.lines < MaxLines
          /\ \/ ing' = [ing EXCEPT !.lines = @ + 1]
             \/ \E request \in requests :
                   ing' = [ing EXCEPT !.lines = @ + 1, !.pc = "convert",
                                      !.request = Some(request)]
             \/ ing' = [ing EXCEPT !.lines = @ + 1, !.logged = @ + 1]
       \/ ing' = [ing EXCEPT !.pc = "sleep"]
    /\ UNCHANGED <<storeVars, runVars, workerVars, out, aggVars, histVars, acquiredVars>>

StreamNext == StreamNextFrom(Requests)

\* sleep(Duration::from_millis(5000)).await, then the loop connects again.
Sleep ==
    /\ ing.pc = "sleep"
    /\ ing' = [ing EXCEPT !.pc = "connect"]
    /\ UNCHANGED <<storeVars, runVars, workerVars, out, aggVars, histVars, acquiredVars>>

\* add_to_queue, the conversion of the games.
ConvertGames ==
    /\ ing.pc = "convert"
    /\ LET request == Unwrap(ing.request)
           games_with_uci == CreateGamesFrom(request.games)
       IN  IF games_with_uci.ok
           THEN ing' = [ing EXCEPT !.pc = "games", !.left = games_with_uci.val]
           ELSE Exit(games_with_uci.err)
    /\ UNCHANGED <<storeVars, runVars, workerVars, out, aggVars, histVars, acquiredVars>>

\* try_join_all(insert_many_games(..)): the upserts run concurrently and end
\* in any order; the first that fails ends add_to_queue.
InsertGame ==
    /\ ing.pc = "games"
    /\ \/ \E game \in ing.left :
             /\ games' = insert_one_game(game)
             /\ ing' = [ing EXCEPT !.left = @ \ {game},
                                   !.pc = IF ing.left = {game} THEN "report" ELSE "games"]
       \/ storeFaults /\ Exit("MongoError") /\ UNCHANGED games
    /\ UNCHANGED <<jobs, reports, analysis, runVars, workerVars, out, aggVars, histVars,
                   acquiredVars>>

\* insert_one_report(db, request.clone().into()).
InsertReport ==
    /\ ing.pc = "report"
    /\ \/ LET request == Unwrap(ing.request)
              report_id == Cardinality(reports) + 1
          IN  /\ reports' = reports \cup
                     {ReportFromCreateReport(report_id, CreateReportFrom(request))}
              /\ ing' = [ing EXCEPT !.pc = "jobs", !.report_id = Some(report_id),
                                    !.left = DOMAIN request.games]
       \/ storeFaults /\ Exit("MongoError") /\ UNCHANGED reports
    /\ UNCHANGED <<jobs, games, analysis, runVars, workerVars, out, aggVars, histVars,
                   acquiredVars>>

\* try_join_all(insert_many_jobs(..)): one insert per game, in any order; the
\* first that fails ends add_to_queue.  After the last, the listener reads on.
InsertJob ==
    /\ ing.pc = "jobs"
    /\ \/ \E i \in ing.left :
             LET request == Unwrap(ing.request)
                 create == CreateJobsFrom(request, Unwrap(ing.report_id))[i]
             IN  /\ jobs' = jobs \cup {JobFromCreateJob(nCreated + 1, create, ing.lines)}
                 /\ nCreated' = nCreated + 1
                 /\ ing' = IF ing.left = {i}
                           THEN [ing EXCEPT !.pc = "read", !.left = {},
                                            !.request = None, !.report_id = None]
                           ELSE [ing EXCEPT !.left = @ \ {i}]
       \/ storeFaults /\ Exit("MongoError") /\ UNCHANGED <<jobs, nCreated>>
    /\ UNCHANGED <<games, reports, analysis, runVars, workerVars, out, aggVars,
                   casWins, payloads, acquiredVars>>

(***************************************************************************)
(* SpecIngest: the stream ingester on an empty store, which may fail.      *)
(***************************************************************************)
InitIngest ==
    /\ jobs = {}
    /\ games = {}
    /\ reports = {}
    /\ analysis = <<>>
    /\ nCreated = 0
    /\ InitIdle
    /\ storeFaults = TRUE
    /\ inputs = {}
    /\ clients = {}

NextIngest ==
    \/ Connect
    \/ StreamNext
    \/ Sleep
    \/ ConvertGames
    \/ InsertGame
    \/ InsertReport
    \/ InsertJob

SpecIngest == InitIngest /\ [][NextIngest]_vars

(***************************************************************************)
(* Claims about ingestion.                                                 *)
(***************************************************************************)
Converts(request) == \A i \in DOMAIN request.games : uci_from_san(request.games[i].pgn).ok

Persisting == ing.pc \in {"games", "report", "jobs"}

\* C21: when a move of a game of a review request does not convert,
\* add_to_queue fails without a change to the store, and the games, the
\* report and the jobs are only ever persisted for a request whose games all
\* convert.
IngestValidatesFirst ==
    [][/\ (ing.pc = "convert" /\ ~Converts(Unwrap(ing.request)))
            => /\ storeVars' = storeVars
               /\ ing'.exit # None
               /\ ~Persisting'
       /\ storeVars' # storeVars => Persisting /\ Converts(Unwrap(ing.request))]_vars

IngestValidatesFirstWitness ==
    /\ ing.pc = "exited"
    /\ ing.exit = Some("SanError")
    /\ \E i \in DOMAIN Unwrap(ing.request).games :
          /\ i > 1
          /\ ~uci_from_san(Unwrap(ing.request).games[i].pgn).ok
          /\ uci_from_san(Unwrap(ing.request).games[1].pgn).ok
    /\ jobs # {}

JobsOf(coll, report_id) == {d \in coll : d.report_id = Some(report_id)}

GameIdsOf(request) == {request.games[i].id : i \in DOMAIN request.games}

\* C22: an ingestion that succeeds writes the report only once every game of
\* the request is stored, and a job only once the report is; the report is
\* one new document, unsent, not completed, of the request's origin and user
\* and with the request's game ids in order; each job is one new document of
\* that report, Deep, of the origin's precedence, unowned and not complete;
\* and when add_to_queue returns the report has exactly one job per game.
IngestPersists ==
    [][LET request == Unwrap(ing.request)
           ids == GameIdsOf(request)
       IN  /\ reports' # reports =>
                /\ \A i \in DOMAIN request.games :
                      CreateGameFrom(request.games[i]).val \in games
                /\ \E r \in reports' :
                      /\ r \notin reports
                      /\ reports' = reports \cup {r}
                      /\ ById(reports, r._id) = {}
                      /\ r.sent_to_irwin = FALSE
                      /\ r.date_completed = None
                      /\ r.origin = request.origin
                      /\ r.user_id = request.user
                      /\ r.games = [i \in DOMAIN request.games |-> request.games[i].id]
                      /\ JobsOf(jobs', r._id) = {}
                      /\ ing'.report_id = Some(r._id)
           /\ jobs' # jobs =>
                \E d \in jobs' :
                      /\ jobs' = jobs \cup {d}
                      /\ ById(jobs, d._id) = {}
                      /\ d.report_id = ing.report_id
                      /\ ById(reports, Unwrap(d.report_id)) # {}
                      /\ d.game_id \in ids
                      /\ ById(games, d.game_id) # {}
                      /\ d.analysis_type = AnalysisTypeSerde("Deep")
                      /\ d.precedence = precedence_for_origin(request.origin)
                      /\ d.owner = None
                      /\ d.is_complete = FALSE
           /\ (ing.pc = "jobs" /\ ing'.pc = "read") =>
                LET of_report == JobsOf(jobs', Unwrap(ing.report_id)) IN
                /\ Cardinality(of_report) = Len(request.games)
                /\ \A g \in ids : Cardinality({d \in of_report : d.game_id = g}) = 1
                /\ Cardinality(ById(reports', Unwrap(ing.report_id))) = 1
                /\ \A i \in DOMAIN request.games :
                      CreateGameFrom(request.games[i]).val \in games']_vars

IngestPersistsWitness ==
    /\ ing.pc = "read"
    /\ ing.lines = 1
    /\ Cardinality(games) = MaxGames
    /\ \E r \in reports :
          /\ reports = {r}
          /\ Len(r.games) = MaxGames
          /\ r.origin = "Tournament"
          /\ Cardinality(JobsOf(jobs, r._id)) = MaxGames

(***************************************************************************)
(* Claims about the stream ingester.                                       *)
(***************************************************************************)
InAddToQueue == ing.pc \in {"convert", "games", "report", "jobs"}

\* C23: an error of add_to_queue, an illegal move or a store failure, is
\* logged by the ingester, which does not end and reads the next line of the
\* stream.
IngestErrorContinues ==
    [][InAddToQueue =>
          /\ ing'.exit = None
          /\ ing'.pc \in {"games", "report", "jobs", "read"}]_vars

\* C24: a connection that cannot be opened, like a stream that ends, sends
\* the ingester to sleep and from there to connect again; a read that fails
\* is survived; none of them ends the ingester with an error.
ReconnectLoop ==
    [][/\ ing.pc = "connect" => (ing'.pc \in {"read", "sleep"} /\ ing'.exit = None)
       /\ ing.pc = "read" => (ing'.pc \in {"read", "convert", "sleep"} /\ ing'.exit = None)
       /\ ing.pc = "sleep" => (ing'.pc = "connect" /\ ing'.exit = None)]_vars

(***************************************************************************)
(* Claims about the aggregator and the bus.                                *)
(***************************************************************************)
\* The report of the job whose JobCompleted the aggregator is handling.
Handling(id) ==
    /\ agg.pc = "get_job"
    /\ \E d \in get_job(Unwrap(agg.job)) : d.report_id = Some(id)

ListenMessages == {JobCompleted(1), JobCompleted(2), JobAborted(1)}

ListenQueues == UNION {[1..n -> ListenMessages] : n \in 1..BusCapacity}

ListenAnalyses == {AnalysisComplete, <<Some(Best(ScoreCp(12))), Some(Skipped)>>}

InitListen ==
    LET report == ReportFromCreateReport(1, CreateReport("alice", "Moderator", {1}))
        created == JobFromCreateJob(1, CreateJob(1, Some(1), "Deep",
                                                 precedence_for_origin(report.origin)), 1)
        owned == [created EXCEPT !.owner = Some(KeyToBson(ApiUserColl["u1"].key))]
        other == JobFromCreateJob(2, CreateJob(2, None, "UserAnalysis", 0), 1)
    IN  /\ reports \in SUBSET {report}
        /\ \E of_report \in SUBSET {owned, [owned EXCEPT !.is_complete = TRUE]} :
              /\ Cardinality(of_report) <= 1
              /\ jobs = of_report \cup {other}
        /\ games = {GameDoc(1), GameDoc(2)}
        /\ \E a \in ListenAnalyses :
              analysis = <<GameAnalysisFrom(1, owned, ApiUserColl["u1"], a)>>
        /\ storeFaults = TRUE
        /\ inputs = {}
        /\ clients = {}
        /\ pc = [u \in Workers |-> "idle"]
        /\ cur = [u \in Workers |-> None]
        /\ body = [u \in Workers |-> <<>>]
        /\ out = Reply(0, None, <<>>)
        /\ \E q \in ListenQueues, lagged \in BOOLEAN :
              bus = [InitBus EXCEPT !.subscribed = TRUE, !.queue = q,
                                    !.lagged = lagged, !.dropped = lagged]
        /\ agg = [pc |-> "recv", job |-> None, report |-> None]
        /\ ing = InitIng
        /\ nCreated = 2
        /\ nAcquired = 0
        /\ handed = {}
        /\ casWins = [r \in ReportIds |-> 0]
        /\ payloads = [r \in ReportIds |-> 0]

NextListen ==
    \/ Recv /\ UNCHANGED acquiredVars
    \/ GetJob /\ UNCHANGED acquiredVars
    \/ FindReport /\ UNCHANGED acquiredVars
    \/ Percentage /\ UNCHANGED acquiredVars
    \/ CompareAndSwap /\ UNCHANGED acquiredVars
    \/ BuildPayload /\ UNCHANGED acquiredVars

SpecListen == InitListen /\ [][NextListen]_vars

\* The step of handle_job_completed the aggregator is at cannot go on: the
\* job or the report is not stored, or the payload cannot be built.
CannotGoOn ==
    \/ agg.pc = "get_job" /\ get_job(Unwrap(agg.job)) = {}
    \/ agg.pc = "find_report" /\ find_report(Unwrap(Unwrap(agg.job).report_id)) = {}
    \/ agg.pc = "build" /\ ~irwin_job_from_report(Unwrap(agg.report)).ok

Handles == agg.pc \in {"get_job", "find_report", "percentage", "cas", "build"}

\* C26: a step of handle_job_completed that finds no job or no report, that
\* cannot build the payload or whose store call fails takes the aggregator
\* back to recv; whatever it handles, the aggregator stays in its loop, and
\* it is stopped only on a closed bus.
AggregatorSurvives ==
    /\ [][(CannotGoOn /\ agg' # agg) => (agg'.pc = "recv" /\ payloads' = payloads)]_vars
    /\ [][(Handles /\ agg' # agg) =>
             agg'.pc \in {"recv", "find_report", "percentage", "cas", "build"}]_vars
    /\ [](agg.pc = "stopped" => bus.closed)
    /\ [](agg.pc = "recv" /\ bus.queue # <<>> => ENABLED (Recv /\ UNCHANGED acquiredVars))

\* C26 witness: back in recv with a message still to read, after a
\* JobCompleted that got the report sent and its payload refused.
AggregatorSurvivesWitness ==
    /\ agg.pc = "recv"
    /\ bus.queue # <<>>
    /\ \E r \in reports : r.sent_to_irwin /\ payloads[r._id] = 0

(***************************************************************************)
(* SpecAuth: SpecBroker with requests that carry the key of no ApiUser and *)
(* requests that ask whether a key is valid, and with the worker that is   *)
(* not permitted Deep among the clients.                                   *)
(***************************************************************************)
InitAuth == InitBroker /\ "u3" \in clients

NextAuth ==
    \/ \E u \in Workers : Acquire(u) /\ Held(u) /\ UNCHANGED nAcquired
    \/ \E u \in Workers : Abort(u) /\ Kept /\ UNCHANGED nAcquired
    \/ \E u \in Workers : SaveAnalysis(u) /\ Kept /\ UNCHANGED nAcquired
    \/ Unauthenticated /\ Kept /\ UNCHANGED nAcquired
    \/ \E u \in Workers : CheckKey(u) /\ Kept /\ UNCHANGED nAcquired

SpecAuth == InitAuth /\ [][NextAuth]_vars

(***************************************************************************)
(* Claims about authentication.                                            *)
(***************************************************************************)
KindOf(j) == {d.analysis_type : d \in ById(jobs, j)}

\* C27: the bearer key of no ApiUser is rejected as unauthenticated, which
\* is answered 401, and a request answered 401 changes neither the store nor
\* the bus nor a request in flight; an abort of a job by a worker whose perms
\* do not include the job's kind is answered 403 and changes neither; and the
\* sink takes no analysis of a job from such a worker.
AuthOutcomes ==
    /\ [](\A key \in StrangerKeys :
             /\ header_authorization_required(key) = Err("Unauthenticated")
             /\ recover(header_authorization_required(key).err) = 401)
    /\ [][(out'.status = 401 /\ out' # out) =>
             UNCHANGED <<storeVars, bus, workerVars>>]_vars
    /\ [][\A u \in Workers, j \in JobIds :
             (Aborts(u, j) /\ KindOf(j) # {} /\ KindOf(j) \cap PermittedKinds(u) = {})
                => (out'.status = 403 /\ UNCHANGED <<storeVars, bus>>)]_vars
    /\ [][\A u \in Workers :
             (Idle(u) /\ pc'[u] = "upsert")
                => Unwrap(cur'[u]).analysis_type \in PermittedKinds(u)]_vars

KeyExists(key) == \E v \in ApiUserIds : ApiUserColl[v].key = key

\* C28: GET /key/{key} is answered 200 with an empty body if an ApiUser has
\* exactly this key and 404 if none has (500 if the lookup fails), and it
\* changes neither the store nor the bus.
KeyValidity ==
    [][\A u \in Workers :
          (pc[u] = "check_key" /\ pc'[u] = "idle") =>
             /\ \/ KeyExists(Unwrap(cur[u])) /\ out' = Reply(200, None, <<>>)
                \/ ~KeyExists(Unwrap(cur[u])) /\ out'.status = 404
                \/ storeFaults /\ out'.status = 500
             /\ out'.status = 200 => KeyExists(Unwrap(cur[u]))
             /\ out'.status = 404 => ~KeyExists(Unwrap(cur[u]))
             /\ UNCHANGED <<storeVars, bus>>]_vars

\* C28 witness: a key was asked about while a job was owned, and the answer
\* was the empty 200, which no other request gives.
KeyValidityWitness ==
    /\ out = Reply(200, None, <<>>)
    /\ \E d \in jobs : d.owner # None
    /\ \E u \in Workers : pc[u] = "check_key" /\ ~KeyExists(Unwrap(cur[u]))

(***************************************************************************)
(* SpecStatus: one client that acquires, aborts, reports analysis and asks *)
(* for the status, request after request, over a pool of queued jobs of    *)
(* which one may lack its game.                                            *)
(***************************************************************************)
InitStatus ==
    /\ InitPool
    /\ InitIdle
    /\ storeFaults = TRUE
    /\ inputs = {AnalysisComplete}
    /\ \E u \in Workers : clients = {u}

NextStatus ==
    \E u \in Workers :
        \/ Acquire(u) /\ Held(u) /\ UNCHANGED nAcquired
        \/ Abort(u) /\ Kept /\ UNCHANGED nAcquired
        \/ SaveAnalysis(u) /\ Kept /\ UNCHANGED nAcquired
        \/ Status(u) /\ Kept /\ UNCHANGED nAcquired

SpecStatus == InitStatus /\ [][NextStatus]_vars

(***************************************************************************)
(* Claims about the status.                                                *)
(***************************************************************************)
QueuedOf(analysis_type) == {d \in jobs : d.owner = None /\ OfKind(d, analysis_type)}

\* The seconds the queued job of the kind that waits longest has waited; 0 if
\* none is queued.
LongestWait(analysis_type) ==
    IF QueuedOf(analysis_type) = {} THEN 0
    ELSE CHOOSE n \in 0..Now :
            /\ \E d \in QueuedOf(analysis_type) : n = Now - d.date_last_updated
            /\ \A d \in QueuedOf(analysis_type) : n >= Now - d.date_last_updated

\* The step in which q_status gets the oldest job of a kind for worker u.
GetsOldest(u) == pc[u] = "status_oldest" /\ pc'[u] \in {"status_acquired", "status_reply"}

\* C29: the 'oldest' figure q_status gives for a kind is the age in seconds of
\* the queued job of that kind with the least date_last_updated, and 0 when no
\* job of the kind is queued.
OldestIsLongestWaiting ==
    [][\A u \in Workers :
          GetsOldest(u) =>
             LET analysis_status == Unwrap(cur'[u]).analysis IN
             analysis_status[Len(analysis_status)].oldest = LongestWait(StatusKind(u))]_vars

\* The counts the status gives, summed over the kinds.
AcquiredCount ==
    acquired_jobs("UserAnalysis") + acquired_jobs("SystemAnalysis") + acquired_jobs("Deep")

QueuedCount ==
    queued_jobs("UserAnalysis") + queued_jobs("SystemAnalysis") + queued_jobs("Deep")

CompletedCount == Cardinality({d \in jobs : d.is_complete})

\* Jobs are created with the ids 1..nCreated.
DeletedCount == Cardinality({j \in 1..nCreated : ~JobExists(j)})

\* The counts of a FishnetStatus that is ready to be sent, summed.
Reported(u) ==
    LET analysis_status == Unwrap(cur[u]).analysis IN
    [acquired |-> analysis_status[1].acquired + analysis_status[2].acquired
                    + analysis_status[3].acquired,
     queued |-> analysis_status[1].queued + analysis_status[2].queued
                  + analysis_status[3].queued]

QueueRequests ==
    {request \in Requests :
        \A i \in DOMAIN request.games : request.games[i].pgn = <<"e4">>}

InitQueue ==
    /\ jobs = {}
    /\ games = {}
    /\ reports = {}
    /\ analysis = <<>>
    /\ nCreated = 0
    /\ InitIdle
    /\ storeFaults = FALSE
    /\ inputs = {}
    /\ clients = {"u1"}

NextQueue ==
    \/ Connect
    \/ StreamNextFrom(QueueRequests)
    \/ Sleep
    \/ ConvertGames
    \/ InsertGame
    \/ InsertReport
    \/ InsertJob
    \/ \E u \in Workers : Acquire(u) /\ UNCHANGED acquiredVars

SpecQueue == InitQueue /\ [][NextQueue]_vars

(***************************************************************************)
(* Claims about the precedence of ingested jobs.                           *)
(***************************************************************************)
\* The origin of the report a job was created for.
OriginOf(d) == (CHOOSE r \in reports : r._id = Unwrap(d.report_id)).origin

OriginRank(origin) ==
    CASE origin = "Moderator"   -> 4
      [] origin = "Leaderboard" -> 3
      [] origin = "Tournament"  -> 2
      [] origin = "Random"      -> 1

\* C31: the precedence of Moderator is 1,000,000, of Leaderboard 1,000, of
\* Tournament 100 and of Random 10; every job ingestion creates carries the
\* precedence of its request's origin; and the job an acquire claims is of
\* the highest-ranking origin among the queued jobs the worker is permitted,
\* whenever they were queued, so a moderator job goes before an older random
\* one.
PrecedenceMapping ==
    /\ [](/\ precedence_for_origin("Moderator") = 1000000
          /\ precedence_for_origin("Leaderboard") = 1000
          /\ precedence_for_origin("Tournament") = 100
          /\ precedence_for_origin("Random") = 10
          /\ \A d \in jobs :
                /\ d.report_id # None
                /\ d.precedence = precedence_for_origin(OriginOf(d)))
    /\ [][\A u \in Workers : Claims(u) =>
            \A e \in jobs :
               (e.owner = None /\ e.analysis_type \in PermittedKinds(u))
                  => OriginRank(OriginOf(e)) <= OriginRank(OriginOf(Unwrap(cur'[u])))]_vars

\* C31 witness: the worker has claimed the moderator job of the second
\* request while the random job of the first is still queued.
PrecedenceMappingWitness ==
    \E u \in Workers :
        /\ pc[u] = "find_game"
        /\ OriginOf(Unwrap(cur[u])) = "Moderator"
        /\ Unwrap(cur[u]).precedence = 1000000
        /\ Unwrap(cur[u]).date_last_updated = 2
        /\ \E e \in jobs : /\ e.owner = None
                           /\ OriginOf(e) = "Random"
                           /\ e.precedence = 10
                           /\ e.date_last_updated = 1
                           /\ e.analysis_type \in PermittedKinds(u)


(***************************************************************************)
(* SpecWork: workers that only acquire, over a pool of queued jobs of      *)
(* every kind.                                                             *)
(***************************************************************************)
InitWork ==
    /\ \E kind \in [1..MaxJobs -> AnalysisType] :
          jobs = {PoolJob(i, [analysis_type |-> kind[i], origin |-> "Random", date |-> i]) :
                     i \in 1..MaxJobs}
    /\ \E missing \in SUBSET {d.game_id : d \in jobs} :
          /\ Cardinality(missing) <= 1
          /\ games = {GameDoc(g) : g \in {d.game_id : d \in jobs} \ missing}
    /\ reports = {}
    /\ analysis = <<>>
    /\ nCreated = Cardinality(jobs)
    /\ InitIdle
    /\ storeFaults = TRUE
    /\ inputs = {}
    /\ clients = Workers

SpecWork == InitWork /\ [][NextAcquire]_vars

(***************************************************************************)
(* Claims about the Job view of acquire.                                   *)
(***************************************************************************)
\* The step in which acquire answers worker u with a Job view.
AnswersJob(u) == pc[u] = "find_game" /\ pc'[u] = "idle" /\ out'.status = 200

\* C32: the Job view acquire answers with has, for a UserAnalysis or a
\* SystemAnalysis job, nodes of 2,250,000 (nnue) and 4,050,000 (classical),
\* no multipv and skip_positions 0 to 9; for a Deep job nodes of 2,500,000
\* and 4,500,000, multipv 5 and no skip_positions; and no depth for any kind.
WorkParameters ==
    [][\A u \in Workers : AnswersJob(u) =>
         LET job == Unwrap(cur[u])
             view == Unwrap(out'.view)
         IN  /\ out'.view # None
             /\ view.work.id = job._id
             /\ job.analysis_type \in {"useranalysis", "systemanalysis", "deep"}
             /\ job.analysis_type \in {"useranalysis", "systemanalysis"} =>
                   /\ view.work.nodes = [nnue |-> 2250000, classical |-> 4050000]
                   /\ view.work.multipv = None
                   /\ view.skip_positions = <<0, 1, 2, 3, 4, 5, 6, 7, 8, 9>>
             /\ job.analysis_type = "deep" =>
                   /\ view.work.nodes = [nnue |-> 2500000, classical |-> 4500000]
                   /\ view.work.multipv = Some(5)
                   /\ view.skip_positions = <<>>
             /\ view.work.depth = None]_vars

\* C32 witness: acquire has just answered with the view of a SystemAnalysis
\* job, after a Deep job and its view went to another worker.
WorkParametersWitness ==
    /\ out.status = 200
    /\ \E d \in jobs : /\ out.job = Some(d._id)
                       /\ d.analysis_type = "systemanalysis"
                       /\ d.owner # None
    /\ Unwrap(out.view).work.nodes.nnue = 2250000
    /\ \E h \in handed, e \in jobs : /\ e._id = h[2]
                                     /\ e.analysis_type = "deep"
                                     /\ Some(e._id) # out.job


(***************************************************************************)
(* SpecRelease: SpecAcquire with a store whose reads and claims may fail   *)
(* but which applies the release acquire_job asks for after a failed       *)
(* find_game.                                                              *)
(***************************************************************************)
\* The unassign_job of acquire_job returns Ok.
ReleaseApplied(u) == jobs' = unassign_job(ApiUserColl[u], Unwrap(cur[u])._id)

NextRelease ==
    \E u \in Workers :
        \/ AssignJob(u) /\ Kept /\ UNCHANGED nAcquired
        \/ FindGame(u) /\ Handed(u) /\ Counted(u)
        \/ UnassignOnError(u) /\ ReleaseApplied(u) /\ Kept /\ UNCHANGED nAcquired
        \/ DeleteJob(u) /\ Kept /\ UNCHANGED nAcquired

SpecRelease == InitAcquire /\ [][NextRelease]_vars

(***************************************************************************)
(* Claims about acquire when the game cannot be fetched.                   *)
(***************************************************************************)
\* The step in which find_game fails for the job worker u has claimed.
FetchFails(u) == pc[u] = "find_game" /\ pc'[u] = "unassign_job"

\* The step in which acquire_job, having released the job, returns the error.
ReturnsError(u) == pc[u] = "unassign_job" /\ pc'[u] = "idle"

InitOrphan ==
    /\ \E n \in 1..MaxJobs :
          LET report == ReportFromCreateReport(1, CreateReport("alice", "Moderator", 1..n))
          IN  /\ reports = {report}
              /\ jobs = {JobFromCreateJob(c.game_id, c, 1) : c \in CreateJobsFromRequest(report)}
              /\ games = {GameDoc(g) : g \in 2..n}
              /\ nCreated = n
    /\ analysis = <<>>
    /\ InitIdle
    /\ storeFaults = FALSE
    /\ inputs = {AnalysisComplete}
    /\ clients = {"u1", "u2"}

SpecOrphan == InitOrphan /\ [][NextShip]_vars

(***************************************************************************)
(* Claims about a report without jobs.                                     *)
(***************************************************************************)
\* The aggregator is evaluating a report of which no job is stored.
EvaluatesNoJobs ==
    /\ agg.pc = "percentage"
    /\ find_by_report(Unwrap(agg.report)._id) = {}

\* C34: when the aggregator evaluates a report that has no job, it goes back
\* to recv without the compare-and-swap and the reports are as they were, the
\* sent bit of the report false if it was false; the compare-and-swap is only
\* reached from an evaluation that counted at least one job.
NoJobsNoShip ==
    /\ [][(EvaluatesNoJobs /\ agg' # agg) =>
             /\ agg'.pc = "recv"
             /\ reports' = reports
             /\ casWins' = casWins
             /\ payloads' = payloads]_vars
    /\ [][(agg.pc = "percentage" /\ agg'.pc = "cas") =>
             find_by_report(Unwrap(agg.report)._id) # {}]_vars

\* C34 witness: the aggregator is evaluating the report, unsent, after the
\* only job of the report was completed and then deleted for want of its game.
NoJobsNoShipWitness ==
    /\ EvaluatesNoJobs
    /\ ~Sent(Unwrap(agg.report)._id)
    /\ jobs = {}
    /\ nCreated = 1
    /\ Len(analysis) = 1


FeedRequests ==
    {request \in Requests :
        /\ request.origin = "Moderator"
        /\ \A i \in DOMAIN request.games : request.games[i].pgn = <<"e4", "e5">>}

InitFeed ==
    /\ jobs = {}
    /\ games = {}
    /\ reports = {}
    /\ analysis = <<>>
    /\ nCreated = 0
    /\ InitIdle
    /\ storeFaults = FALSE
    /\ inputs = {AnalysisComplete}
    /\ clients = {"u1"}

NextFeed ==
    \/ Connect
    \/ StreamNextFrom(IF Cardinality(reports) < MaxReports /\ ing.request = None
                      THEN FeedRequests ELSE {})
    \/ Sleep
    \/ ConvertGames
    \/ InsertGame
    \/ InsertReport
    \/ InsertJob
    \/ \E u \in Workers : Acquire(u) /\ UNCHANGED acquiredVars
    \/ \E u \in Workers : SaveAnalysis(u) /\ UNCHANGED acquiredVars
    \/ Aggregator /\ UNCHANGED acquiredVars

SpecFeed == InitFeed /\ [][NextFeed]_vars

(***************************************************************************)
(* Claims about shipping while a report is being ingested.                 *)
(***************************************************************************)
\* Game g of report r has a complete job.
GameDone(r, g) ==
    \E d \in jobs : d.report_id = Some(r._id) /\ d.game_id = g /\ d.is_complete

\* C36: a report whose sent bit is set has, for every game of its game list,
\* a complete job, also while add_to_queue is still inserting its jobs.
NoPrematureShip ==
    \A r \in reports :
        r.sent_to_irwin => \A i \in DOMAIN r.games : GameDone(r, r.games[i])


(***************************************************************************)
(* SpecSink: SpecBroker with one worker, on a store that does not fail,    *)
(* submitting analysis arrays of every length up to that of the game: the  *)
(* empty array, one slot, and two slots with and without a null.           *)
(***************************************************************************)
SinkInputs == {<<>>, <<Some(Best(ScoreCp(12)))>>, AnalysisPartial, AnalysisComplete}

InitSink ==
    /\ InitReports
    /\ InitIdle
    /\ storeFaults = FALSE
    /\ inputs = SinkInputs
    /\ clients = {"u1"}

SpecSink == InitSink /\ [][NextBroker]_vars

(***************************************************************************)
(* Claims about what completes a job.                                      *)
(***************************************************************************)
\* The moves of the game of job j.
MovesOf(j) ==
    LET job == CHOOSE d \in jobs : d._id = j
    IN  (CHOOSE g \in games : g._id = job.game_id).pgn

\* C37: every step that sets is_complete on a job is the set_complete of a
\* submission whose analysis array has one slot for every move of the job's
\* game, none of them null.
CompleteNeedsEveryMove ==
    [][\A j \in JobIds :
         Completed(j) =>
            \E u \in Workers :
               /\ pc[u] = "set_complete"
               /\ Unwrap(cur[u])._id = j
               /\ Len(body[u]) = Len(MovesOf(j))
               /\ NoNullSlot(body[u])]_vars


(***************************************************************************)
(* Claims about the games of a payload.                                    *)
(***************************************************************************)
\* The step in which update_report_completeness builds the payload.
BuildsPayload == Builds /\ payloads' # payloads

\* C38: a payload that is built holds exactly one game for every job of the
\* report, with an evaluation for every slot of an analysis stored for that
\* job that has no null slot, however many analyses were submitted for the
\* job.
OneGamePerJob ==
    [][BuildsPayload =>
         LET report == Unwrap(agg.report)
             payload == irwin_job_from_report(report).val
             of_report == find_by_report(report._id)
         IN  /\ Len(payload.games) = Cardinality(of_report)
             /\ \A d \in of_report :
                   /\ Cardinality({k \in DOMAIN payload.games :
                                      payload.games[k].id = d.game_id}) = 1
                   /\ \E i \in DOMAIN analysis :
                         /\ analysis[i].job_id = d._id
                         /\ NoNullSlot(analysis[i].analysis)
                         /\ \A k \in DOMAIN payload.games :
                               payload.games[k].id = d.game_id =>
                                  Len(payload.games[k].analysis) = Len(analysis[i].analysis)]_vars


(***************************************************************************)
(* Claims about the order of writing and publishing in the analysis sink.  *)
(***************************************************************************)
\* The step in which worker u's submission publishes JobCompleted(j).
PublishesCompleted(u, j) ==
    /\ pc[u] = "set_complete"
    /\ pc'[u] = "idle"
    /\ out'.msgs = <<JobCompleted(j)>>

\* The id of the job whose JobCompleted the aggregator is handling.
HandledJob == IF agg.pc = "get_job" THEN Unwrap(agg.job) ELSE Unwrap(agg.job)._id

\* C39: when a submission publishes JobCompleted(j), its analysis is already
\* stored for j and is_complete is true on j; and as long as a JobCompleted(j)
\* is on the bus or being handled by the aggregator, job j, where it is
\* stored, is complete, so that the aggregator's count never takes it for
\* incomplete.
WriteBeforePublish ==
    /\ [][\A u \in Workers, j \in JobIds :
            PublishesCompleted(u, j) =>
               /\ \E i \in DOMAIN analysis :
                     /\ analysis[i].job_id = j
                     /\ analysis[i].analysis = body[u]
               /\ analysis' = analysis
               /\ \E d \in jobs' : d._id = j /\ d.is_complete]_vars
    /\ [](\A i \in DOMAIN bus.queue :
             bus.queue[i].type = "JobCompleted" =>
                \A d \in jobs : d._id = bus.queue[i].id => d.is_complete)
    /\ [](Handles => \A d \in jobs : d._id = HandledJob => d.is_complete)
    /\ [](agg.pc = "percentage" =>
             \A d \in find_by_report(Unwrap(agg.report)._id) :
                d._id = HandledJob => d.is_complete)

\* C39 witness: the aggregator is counting the jobs of a report for the
\* JobCompleted of one of them, while the JobCompleted of the other waits on
\* the bus.
WriteBeforePublishWitness ==
    /\ agg.pc = "percentage"
    /\ bus.queue # <<>>
    /\ Head(bus.queue).type = "JobCompleted"
    /\ Head(bus.queue).id # HandledJob
    /\ Cardinality(find_by_report(Unwrap(agg.report)._id)) = 2
    /\ \A d \in jobs : d.is_complete


(***************************************************************************)
(* SpecBus: SpecSink with the aggregator, which subscribes to the bus when *)
(* its task first runs: requests are served before and after.              *)
(***************************************************************************)
NextBus ==
    \/ NextBroker
    \/ Aggregator /\ UNCHANGED acquiredVars

SpecBus == InitSink /\ [][NextBus]_vars

(***************************************************************************)
(* Claims about publishing.                                                *)
(***************************************************************************)
\* The step of client u's request in which the handler calls send(msg): the
\* last step of an acquire or of a submission, the one step of an abort, in
\* which no request moves on and the aggregator receives nothing.
Publishes(u, msg) ==
    /\ u \in clients
    /\ out'.msgs = <<msg>>
    /\ pc'[u] = "idle"
    /\ IF msg.type = "JobAborted"
       THEN /\ pc' = pc /\ cur' = cur /\ agg' = agg
            /\ Len(bus'.queue) >= Len(bus.queue)
            /\ bus.lagged => bus'.lagged
       ELSE pc[u] # "idle"

=============================================================================
